---- MODULE Spec2Model ----
(***************************************************************************)
(* N-body gravitational core of orbit-sim: force model, RK4 integrator,    *)
(* conservation diagnostics, eclipse geometry and the runSimulation loop.  *)
(*                                                                         *)
(* Arithmetic.  The program computes in IEEE doubles.  The model computes  *)
(* in exact rationals <<n, d>> (d > 0, lowest terms), which is the "exact  *)
(* arithmetic" the algebraic statements are about.  A denominator of 0     *)
(* encodes the non-finite doubles: <<1,0>> = +Inf, <<-1,0>> = -Inf,        *)
(* <<0,0>> = NaN, produced by a division by zero exactly as the FPU        *)
(* produces them.  A rational whose numerator or denominator exceeds       *)
(* MaxMagnitude, and the square root of a number that is not the square of *)
(* a rational, is the value UNREP, which every operation propagates.  The  *)
(* inputs of every specification are drawn from the inputs on which the    *)
(* operation under study computes no UNREP, so that reachable states hold  *)
(* exact values only.                                                      *)
(*                                                                         *)
(* Units.  Lengths are metres and times seconds as in the program.  Masses *)
(* are counted in units of 2/6.67430e-11 kg, so that the numerical value   *)
(* of the gravitational constant is 2 (6.67430e-11 has no exact 32-bit     *)
(* rational form).                                                         *)
(***************************************************************************)
EXTENDS Integers, Sequences, FiniteSets, TLC

VARIABLES
    bodies,     \* the caller's std::vector<CelestialBody>
    entry,      \* history: the collection as it was when the operation was entered
    pc,         \* position in the operation being executed
    fi, fj,     \* loop indices of updateAccelerations (1-based)
    before,     \* history: the collection as the latest computeGravitationalForce call found it
    calls,      \* history: the (i, j) pairs computeGravitationalForce was called with
    divs,       \* history: divs[k] is the number of divisions call k executed
    partial     \* a force pass split among workers: the pairs done, each worker's copy

forceVars == <<fi, fj, before, calls, divs, partial>>

VARIABLES
    dt,         \* the timestep passed to rk4Step
    steps,      \* the number of steps the caller asks for
    stepNo,     \* the number of rk4Step calls that have returned
    k1, k2, k3, k4,   \* locals of rk4Step: the stage derivatives
    s2, s3, s4,       \* locals of rk4Step: the intermediate states
    twin        \* a second collection, equal to the caller's but for the stored
                \* accelerations, advanced by the same calls

rkVars == <<k1, k2, k3, k4, s2, s3, s4>>

stepVars == <<dt, steps, stepNo, twin>>

VARIABLES
    cons,       \* the Conservations object C that compute fills and returns
    ci, cj,     \* loop indices of compute (1-based)
    terms,      \* history: the pairs the potential loop visited, and whether a term was added
    firstC      \* history: the Conservations an earlier compute call on the collection returned

diagVars == <<cons, ci, cj, terms, firstC>>

VARIABLES
    sem,        \* the positions S, E, M handed to computeSolarEclipse
    result,     \* the EclipseResult it returned
    eclDivs     \* history: the divisions and normalisations the call evaluated

eclVars == <<sem, result, eclDivs>>

VARIABLES
    baseline,   \* runSimulation's E0, L0, P0mag
    rows,       \* the data rows written to the main CSV file so far
    isSEM,      \* runSimulation's isSEM: the eclipse log is being written
    semIdx,     \* runSimulation's idxSun, idxEarth, idxMoon (1-based, 0 for -1)
    eclipseRows, \* the data rows written to the eclipse log so far
    stage,      \* the stage of rk4Step (1..4) whose force evaluation is running
    events      \* history: what the current tick of runSimulation has done so far

runVars == <<baseline, rows, isSEM, semIdx, eclipseRows, stage, events>>

VARIABLES
    command,    \* opt.command: the command main was started with
    systemFile, \* the content of the file opt.systemFile names
    verdict,    \* what validateSystemFile returned
    report,     \* the lines validateSystemFile printed
    exitCode,   \* what main returned
    argv,       \* the arguments after the program name: argv[1], argv[2], ...
    argi,       \* parseCLI's loop index i
    opt,        \* the CLIOptions parseCLI fills
    shown       \* the help text that was printed

cliVars == <<command, systemFile, verdict, report, exitCode, argv, argi, opt, shown>>

VARIABLES
    bary        \* normalizeToBarycenter's locals: totalMass, R_cm, V_cm, the loop index

baryVars == <<bary>>

\* the state of the diagnostics, of the eclipse engine, of the runner, of main
\* and of the barycentre normalisation
laterVars == <<diagVars, eclVars, runVars, cliVars, baryVars>>

vars == <<bodies, entry, pc, forceVars, rkVars, stepVars, laterVars>>

\* no rk4Step call is active: its locals do not exist
RkIdle ==
    /\ k1 = <<>> /\ k2 = <<>> /\ k3 = <<>> /\ k4 = <<>>
    /\ s2 = <<>> /\ s3 = <<>> /\ s4 = <<>>

\* the force pass is not followed statement by statement
ForceIdle == fi = 0 /\ fj = 0 /\ before = <<>> /\ calls = <<>> /\ divs = <<>> /\ partial = <<>>

\* no compute call is active
DiagIdle == cons = <<>> /\ ci = 0 /\ cj = 0 /\ terms = <<>> /\ firstC = <<>>

\* no computeSolarEclipse call was made
EclIdle == sem = <<>> /\ result = <<>> /\ eclDivs = 0

\* no command line is being parsed
ArgsIdle == argv = <<>> /\ argi = 0 /\ opt = <<>> /\ shown = ""

\* the operation was not started from the command line
BaryIdle == bary = <<>>

CliIdle ==
    /\ command = "" /\ systemFile = <<>> /\ verdict = "" /\ report = <<>> /\ exitCode = -1
    /\ ArgsIdle

\* runSimulation is not running
RunIdle ==
    /\ baseline = <<>> /\ rows = <<>>
    /\ isSEM = FALSE /\ semIdx = <<>> /\ eclipseRows = <<>>
    /\ stage = 0 /\ events = <<>>

---------------------------------------------------------------------------
(* Bounds of the model *)

MaxBodies == 3

\* the largest collection the integrator is run on
MaxRkBodies == 2

\* the largest number of steps a caller asks for
MaxSteps == 2

\* the largest numerator or denominator the model's arithmetic represents
MaxMagnitude == 1000000000

---------------------------------------------------------------------------
(* double arithmetic *)

Abs(x) == IF x < 0 THEN -x ELSE x

Sgn(x) == IF x < 0 THEN -1 ELSE IF x > 0 THEN 1 ELSE 0

RECURSIVE GCD(_, _)
GCD(a, b) == IF b = 0 THEN a ELSE GCD(b, a % b)

\* the product x * y stays within the number range of the model
Fits(x, y) == x = 0 \/ y = 0 \/ Abs(x) <= MaxMagnitude \div Abs(y)

\* a value the model cannot represent: a rational whose numerator or denominator
\* exceeds MaxMagnitude, or an irrational square root
UNREP == <<0, -1>>

NaN == <<0, 0>>

PosInf == <<1, 0>>

NegInf == <<-1, 0>>

\* the rational n/d in lowest terms with a positive denominator
Norm(n, d) ==
    IF d = 0 THEN <<Sgn(n), 0>>
    ELSE LET g == GCD(Abs(n), Abs(d))
             s == Sgn(d)
             q == <<s * (n \div g), s * (d \div g)>>
         IN  IF Abs(q[1]) <= MaxMagnitude /\ q[2] <= MaxMagnitude THEN q ELSE UNREP

R(n) == <<n, 1>>

Frac(n, d) == Norm(n, d)

ZERO == R(0)

ONE == R(1)

\* neither Inf nor NaN
IsFinite(a) == a[2] # 0

Representable(a) == a # UNREP

QNeg(a) == IF a = UNREP THEN UNREP ELSE <<-a[1], a[2]>>

QAdd(a, b) ==
    IF a = UNREP \/ b = UNREP THEN UNREP
    ELSE IF a[2] = 0 /\ b[2] = 0 THEN (IF a = b THEN a ELSE NaN)
    ELSE LET g  == GCD(a[2], b[2])
             la == b[2] \div g
             lb == a[2] \div g
         IN  IF Fits(a[1], la) /\ Fits(b[1], lb) /\ Fits(a[2], la)
             THEN Norm(a[1] * la + b[1] * lb, a[2] * la)
             ELSE UNREP

QSub(a, b) == QAdd(a, QNeg(b))

QMul(a, b) ==
    IF a = UNREP \/ b = UNREP THEN UNREP
    ELSE IF a[2] = 0 \/ b[2] = 0 THEN <<Sgn(a[1]) * Sgn(b[1]), 0>>
    ELSE LET g1 == GCD(Abs(a[1]), b[2])
             g2 == GCD(Abs(b[1]), a[2])
             n1 == a[1] \div g1
             n2 == b[1] \div g2
             d1 == a[2] \div g2
             d2 == b[2] \div g1
         IN  IF Fits(n1, n2) /\ Fits(d1, d2) THEN <<n1 * n2, d1 * d2>> ELSE UNREP

\* 1/a; 1/0 is +Inf, 1/Inf is 0
QInv(a) ==
    IF a = UNREP THEN UNREP
    ELSE IF a = NaN THEN NaN
    ELSE IF a[2] = 0 THEN ZERO
    ELSE IF a[1] = 0 THEN PosInf
    ELSE IF a[1] > 0 THEN <<a[2], a[1]>>
    ELSE <<-a[2], -a[1]>>

QDiv(a, b) ==
    IF a = UNREP \/ b = UNREP THEN UNREP
    ELSE IF a[2] = 0 /\ b[2] = 0 THEN NaN
    ELSE IF a[1] = 0 /\ b[1] = 0 THEN NaN
    ELSE QMul(a, QInv(b))

\* n1/d1 < n2/d2 for positive denominators, by comparing continued fractions
RECURSIVE FracLt(_, _, _, _)
FracLt(n1, d1, n2, d2) ==
    LET q1 == n1 \div d1
        q2 == n2 \div d2
        r1 == n1 % d1
        r2 == n2 % d2
    IN  IF q1 # q2 THEN q1 < q2
        ELSE IF r1 = 0 THEN r2 > 0
        ELSE IF r2 = 0 THEN FALSE
        ELSE FracLt(d2, r2, d1, r1)

\* a < b; false when either is NaN
QLt(a, b) ==
    IF a = UNREP \/ b = UNREP \/ a = NaN \/ b = NaN THEN FALSE
    ELSE IF a[2] = 0 \/ b[2] = 0
         THEN (IF a[2] = 0 /\ b[2] = 0 THEN a[1] < b[1]
               ELSE IF a[2] = 0 THEN a[1] < 0
               ELSE b[1] > 0)
    ELSE FracLt(a[1], a[2], b[1], b[2])

QGt(a, b) == QLt(b, a)

\* a <= b; false when either is NaN
QLe(a, b) ==
    IF a = UNREP \/ b = UNREP \/ a = NaN \/ b = NaN THEN FALSE
    ELSE a = b \/ QLt(a, b)

\* std::abs
QAbs(a) == IF a = UNREP THEN UNREP ELSE <<Abs(a[1]), a[2]>>

\* the largest k in lo..hi with k * k <= n, by bisection
RECURSIVE RootBetween(_, _, _)
RootBetween(n, lo, hi) ==
    IF lo >= hi THEN lo
    ELSE LET mid == (lo + hi + 1) \div 2
         IN  IF mid <= n \div mid THEN RootBetween(n, mid, hi)
             ELSE RootBetween(n, lo, mid - 1)

IRoot(n) == RootBetween(n, 0, n)

IsSquare(n) == n >= 0 /\ IRoot(n) * IRoot(n) = n

\* std::sqrt: exact on the squares of rationals, unrepresentable elsewhere
QSqrt(a) ==
    IF a = UNREP THEN UNREP
    ELSE IF a[2] = 0 THEN (IF a[1] > 0 THEN a ELSE NaN)
    ELSE IF a[1] < 0 THEN NaN
    ELSE IF IsSquare(a[1]) /\ IsSquare(a[2]) THEN <<IRoot(a[1]), IRoot(a[2])>>
    ELSE UNREP

---------------------------------------------------------------------------
(* vec3 *)

Vec(x, y, z) == <<R(x), R(y), R(z)>>

ZeroVec == Vec(0, 0, 0)

vec3_plus(u, v) == <<QAdd(u[1], v[1]), QAdd(u[2], v[2]), QAdd(u[3], v[3])>>

vec3_minus(u, v) == <<QSub(u[1], v[1]), QSub(u[2], v[2]), QSub(u[3], v[3])>>

vec3_neg(v) == <<QNeg(v[1]), QNeg(v[2]), QNeg(v[3])>>

vec3_scale(t, v) == <<QMul(t, v[1]), QMul(t, v[2]), QMul(t, v[3])>>

vec3_div(v, t) == vec3_scale(QDiv(ONE, t), v)

dot(u, v) == QAdd(QAdd(QMul(u[1], v[1]), QMul(u[2], v[2])), QMul(u[3], v[3]))

cross(u, v) ==
    <<QSub(QMul(u[2], v[3]), QMul(u[3], v[2])),
      QSub(QMul(u[3], v[1]), QMul(u[1], v[3])),
      QSub(QMul(u[1], v[2]), QMul(u[2], v[1]))>>

length_squared(v) == QAdd(QAdd(QMul(v[1], v[1]), QMul(v[2], v[2])), QMul(v[3], v[3]))

length(v) == QSqrt(length_squared(v))

unit_vector(v) == vec3_div(v, length(v))

VecFinite(v) == IsFinite(v[1]) /\ IsFinite(v[2]) /\ IsFinite(v[3])

VecRepresentable(v) == Representable(v[1]) /\ Representable(v[2]) /\ Representable(v[3])

Half == Frac(1, 2)

---------------------------------------------------------------------------
(* Program constants *)

G == 2

GQ == R(G)

\* the proximity threshold on the squared distance, in square metres
ProximityThreshold == 1

\* radii of Sun, Earth and Moon, in metres
R_SUN == 695700000

R_EARTH == 6371000

R_MOON == 1737000

---------------------------------------------------------------------------
(* Body state model *)

CelestialBody(nm, m, p, v, a) ==
    [name |-> nm, mass |-> m, position |-> p, velocity |-> v, acceleration |-> a]

Indices(bs) == 1..Len(bs)

\* the sequence f as an explicit tuple of its elements
RECURSIVE TupleOf(_, _)
TupleOf(f, k) == IF k = 0 THEN <<>> ELSE Append(TupleOf(f, k - 1), f[k])

AsTuple(f) == TupleOf(f, Len(f))

Pairs(bs) == {p \in Indices(bs) \X Indices(bs) : p[1] < p[2]}

---------------------------------------------------------------------------
(* Gravitational force model *)

\* the squared distance of the pair (i, j), as computeGravitationalForce takes it
PairR2(bs, i, j) == length_squared(vec3_minus(bs[j].position, bs[i].position))

\* the early return of computeGravitationalForce
Skipped(bs, i, j) == QLt(PairR2(bs, i, j), R(ProximityThreshold))

\* computeGravitationalForce with the counterpart's mass taken from the wrong body
computeGravitationalForce_sameMass(bs, i, j) ==
    LET a     == bs[i]
        b     == bs[j]
        r_vec == vec3_minus(b.position, a.position)
        r2    == length_squared(r_vec)
    IN  IF QLt(r2, R(ProximityThreshold)) THEN [bodies |-> bs, divisions |-> 0]
        ELSE LET r     == QSqrt(r2)
                 invr  == QDiv(ONE, r)
                 invr3 == QDiv(invr, r2)
                 acc_a == vec3_scale(QMul(QMul(GQ, b.mass), invr3), r_vec)
                 acc_b == vec3_scale(QMul(QMul(GQ, b.mass), invr3), vec3_neg(r_vec))
             IN  [bodies    |-> [bs EXCEPT ![i].acceleration = vec3_plus(@, acc_a),
                                           ![j].acceleration = vec3_plus(@, acc_b)],
                  divisions |-> 2]

\* computeGravitationalForce with the guard written r2 <= 1.0
computeGravitationalForce_guardLe(bs, i, j) ==
    LET a     == bs[i]
        b     == bs[j]
        r_vec == vec3_minus(b.position, a.position)
        r2    == length_squared(r_vec)
    IN  IF QLe(r2, R(ProximityThreshold)) THEN [bodies |-> bs, divisions |-> 0]
        ELSE LET r     == QSqrt(r2)
                 invr  == QDiv(ONE, r)
                 invr3 == QDiv(invr, r2)
                 acc_a == vec3_scale(QMul(QMul(GQ, b.mass), invr3), r_vec)
                 acc_b == vec3_scale(QMul(QMul(GQ, a.mass), invr3), vec3_neg(r_vec))
             IN  [bodies    |-> [bs EXCEPT ![i].acceleration = vec3_plus(@, acc_a),
                                           ![j].acceleration = vec3_plus(@, acc_b)],
                  divisions |-> 2]

\* computeGravitationalForce(bodies[i], bodies[j]): the collection it leaves, and the
\* number of divisions it executed (1.0 / r and invr / r2)
computeGravitationalForce(bs, i, j) ==
    LET a     == bs[i]
        b     == bs[j]
        r_vec == vec3_minus(b.position, a.position)
        r2    == length_squared(r_vec)
    IN  IF QLt(r2, R(ProximityThreshold)) THEN [bodies |-> bs, divisions |-> 0]
        ELSE LET r     == QSqrt(r2)
                 invr  == QDiv(ONE, r)
                 invr3 == QDiv(invr, r2)
                 acc_a == vec3_scale(QMul(QMul(GQ, b.mass), invr3), r_vec)
                 acc_b == vec3_scale(QMul(QMul(GQ, a.mass), invr3), vec3_neg(r_vec))
             IN  [bodies    |-> [bs EXCEPT ![i].acceleration = vec3_plus(@, acc_a),
                                           ![j].acceleration = vec3_plus(@, acc_b)],
                  divisions |-> 2]

\* resetAccelerations that forgets the last body
resetAccelerations_skipLast(bs) ==
    AsTuple([k \in Indices(bs) |-> IF k = Len(bs) THEN bs[k]
                                   ELSE [bs[k] EXCEPT !.acceleration = ZeroVec]])

\* a reset that builds each body anew and leaves its name out
resetAccelerations_unnamed(bs) ==
    AsTuple([k \in Indices(bs) |->
        CelestialBody("", bs[k].mass, bs[k].position, bs[k].velocity, ZeroVec)])

resetAccelerations(bs) ==
    AsTuple([k \in Indices(bs) |-> [bs[k] EXCEPT !.acceleration = ZeroVec]])

\* the (i, j) that follows (i, j) in the nested loop of updateAccelerations
NextPair(n, i, j) == IF j < n THEN <<i, j + 1>> ELSE <<i + 1, i + 2>>

\* the loop of updateAccelerations from position (i, j) to its end
RECURSIVE ForceLoop(_, _, _)
ForceLoop(bs, i, j) ==
    IF i >= Len(bs) THEN bs
    ELSE LET nx == NextPair(Len(bs), i, j)
         IN  ForceLoop(computeGravitationalForce(bs, i, j).bodies, nx[1], nx[2])

updateAccelerations(bs) == ForceLoop(resetAccelerations(bs), 1, 2)

---------------------------------------------------------------------------
(* RK4 integrator *)

StateDerivative(p, v) == [dpos |-> p, dvel |-> v]

\* the derivatives evaluateDerivatives reads off the updated collection
Derivatives(bs) ==
    AsTuple([i \in Indices(bs) |-> StateDerivative(bs[i].velocity, bs[i].acceleration)])

\* the collection an evaluateDerivatives call leaves, with the derivatives it returns
Evaluated(nb) == [bodies |-> nb, d |-> Derivatives(nb)]

\* an evaluateDerivatives that reads the stored accelerations without updating them
evaluateDerivatives_stale(bs) == Evaluated(bs)

\* evaluateDerivatives(bodies): updateAccelerations(bodies), then the derivatives
evaluateDerivatives(bs) == Evaluated(updateAccelerations(bs))

buildIntermediateState(bs, d, scale) ==
    AsTuple([i \in Indices(bs) |->
        [bs[i] EXCEPT !.position = vec3_plus(@, vec3_scale(scale, d[i].dpos)),
                      !.velocity = vec3_plus(@, vec3_scale(scale, d[i].dvel))]])

TWO == R(2)

\* the weighted sum a + 2.0*b + 2.0*c + d of the final loop of rk4Step
StageSum(a, b, c, d) ==
    vec3_plus(vec3_plus(vec3_plus(a, vec3_scale(TWO, b)), vec3_scale(TWO, c)), d)

\* the final loop of rk4Step
Combine(bs, d1, d2, d3, d4, h) ==
    LET sixth == QDiv(h, R(6))
    IN  AsTuple([i \in Indices(bs) |->
            [bs[i] EXCEPT
                !.position = vec3_plus(@, vec3_scale(sixth,
                    StageSum(d1[i].dpos, d2[i].dpos, d3[i].dpos, d4[i].dpos))),
                !.velocity = vec3_plus(@, vec3_scale(sixth,
                    StageSum(d1[i].dvel, d2[i].dvel, d3[i].dvel, d4[i].dvel)))]])

\* rk4Step(bodies, dt) as one call, statement by statement: the collection it leaves.
\* rk4Step_s4 is the call from "s4 = ..." on, rk4Step_s3 from "s3 = ..." on,
\* rk4Step_s2 from "s2 = ..." on; e1 is the k1 evaluation, which ran on bodies itself
rk4Step_s4(bs, d1, d2, d3, h) ==
    Combine(bs, d1, d2, d3, evaluateDerivatives(buildIntermediateState(bs, d3, h)).d, h)

rk4Step_s3(bs, d1, d2, h) ==
    rk4Step_s4(bs, d1, d2,
               evaluateDerivatives(buildIntermediateState(bs, d2, QMul(h, Half))).d, h)

rk4Step_s2(e1, h) ==
    rk4Step_s3(e1.bodies, e1.d,
               evaluateDerivatives(buildIntermediateState(e1.bodies, e1.d, QMul(h, Half))).d, h)

rk4Step(bs, h) == IF Len(bs) = 0 THEN bs ELSE rk4Step_s2(evaluateDerivatives(bs), h)

\* n successive rk4Step calls
RECURSIVE rk4Steps(_, _, _)
rk4Steps(bs, h, n) == IF n <= 0 THEN bs ELSE rk4Steps(rk4Step(bs, h), h, n - 1)

---------------------------------------------------------------------------
(* Inputs of the force model *)

\* sample bodies (mass, position): coincident when one is taken twice, closer
\* than 1 m, exactly 1 m apart, and apart in 3-D
ForceSamples ==
    { <<R(1), Vec(0, 0, 0)>>, <<R(3), <<Half, ZERO, ZERO>> >>, <<R(3), Vec(1, 0, 0)>>,
      <<R(1), Vec(3, 0, 0)>>, <<R(3), Vec(0, 4, 0)>>, <<R(1), Vec(1, 2, 2)>> }

\* a stale acceleration left in body k by whatever ran before
Junk(k) == <<R(k), R(-2), Frac(1, 3)>>

BodyNames == <<"Sun", "Earth", "Moon", "Mars", "Venus">>

\* every field of every body is a number the model represents
BodiesRepresentable(bs) ==
    \A k \in Indices(bs) : /\ Representable(bs[k].mass)
                            /\ VecRepresentable(bs[k].position)
                            /\ VecRepresentable(bs[k].velocity)
                            /\ VecRepresentable(bs[k].acceleration)

\* the collections on which the force pass stays within the model's arithmetic
\* (every distance whose root is taken is rational)
ForceRepresentable(bs) == BodiesRepresentable(updateAccelerations(bs))

\* the collections of at most maxLen bodies, with fresh or stale accelerations
ForceInputs(maxLen) ==
    UNION { { AsTuple([k \in 1..n |-> CelestialBody(BodyNames[k], c[k][1], c[k][2], ZeroVec,
                                            IF stale THEN Junk(k) ELSE ZeroVec)]) :
                c \in [1..n -> ForceSamples], stale \in BOOLEAN } : n \in 0..maxLen }

---------------------------------------------------------------------------
(* updateAccelerations, one loop iteration per step *)

InitForce ==
    /\ bodies \in ForceInputs(MaxBodies)
    /\ ForceRepresentable(bodies)
    /\ entry = bodies
    /\ pc = "f_reset"
    /\ fi = 0
    /\ fj = 0
    /\ before = bodies
    /\ calls = <<>>
    /\ divs = <<>>
    /\ partial = <<>>
    /\ RkIdle
    /\ dt = ZERO
    /\ steps = 0
    /\ stepNo = 0
    /\ twin = <<>>
    /\ DiagIdle /\ EclIdle /\ RunIdle /\ BaryIdle /\ CliIdle

ForceReset ==
    /\ pc = "f_reset"
    /\ bodies' = resetAccelerations(bodies)
    /\ fi' = 1
    /\ fj' = 2
    /\ pc' = "f_loop"
    /\ UNCHANGED <<entry, before, calls, divs, rkVars, stepVars, laterVars, partial>>

ForcePair ==
    /\ pc = "f_loop"
    /\ fi < Len(bodies)
    /\ bodies' = computeGravitationalForce(bodies, fi, fj).bodies
    /\ before' = bodies
    /\ calls' = Append(calls, <<fi, fj>>)
    /\ divs' = Append(divs, computeGravitationalForce(bodies, fi, fj).divisions)
    /\ fi' = NextPair(Len(bodies), fi, fj)[1]
    /\ fj' = NextPair(Len(bodies), fi, fj)[2]
    /\ UNCHANGED <<entry, pc, rkVars, stepVars, laterVars, partial>>

ForceExit ==
    /\ pc = "f_loop"
    /\ fi >= Len(bodies)
    /\ pc' = "f_done"
    /\ UNCHANGED <<bodies, entry, forceVars, rkVars, stepVars, laterVars>>

NextForce == ForceReset \/ ForcePair \/ ForceExit

SpecForce == InitForce /\ [][NextForce]_vars

---------------------------------------------------------------------------
(* rk4Step, one statement per step, called `steps` times by a caller *)

\* sample bodies (mass, position, velocity): at rest and moving, on a line and off it
RkSamples ==
    { <<R(1), Vec(0, 0, 0), Vec(0, 0, 0)>>,
      <<R(3), Vec(2, 0, 0), Vec(0, 0, 0)>>,
      <<R(1), Vec(0, 0, 0), Vec(1, 0, 0)>>,
      <<R(1), Vec(2, 0, 0), Vec(1, 0, 0)>>,
      <<R(1), <<Half, ZERO, ZERO>>, Vec(0, -1, 0)>>,
      <<R(3), Vec(1, 2, 2), Vec(0, -1, 0)>> }

RkTimesteps == { R(1), R(2) }

\* the collections rk4Step is called on; every body carries the acceleration some
\* earlier computation left in it
RkInputs(maxLen) ==
    UNION { { AsTuple([k \in 1..n |->
                  CelestialBody(BodyNames[k], c[k][1], c[k][2], c[k][3], Junk(k))]) :
                c \in [1..n -> RkSamples] } :
            n \in 0..maxLen }

\* the same collection with other stored accelerations
OtherAccelerations(bs) ==
    AsTuple([k \in Indices(bs) |->
        [bs[k] EXCEPT !.acceleration = IF k = 1 THEN ZeroVec ELSE Junk(k + 1)]])

\* the collections on which n steps of size h compute representable values only
RkAdmissible(h, n) == {bs \in RkInputs(MaxRkBodies) : BodiesRepresentable(rk4Steps(bs, h, n))}

InitRk4 ==
    /\ \E h \in RkTimesteps, n \in 1..MaxSteps :
            dt = h /\ steps = n /\ bodies \in RkAdmissible(h, n)
    /\ twin = OtherAccelerations(bodies)
    /\ entry = bodies
    /\ pc = "rk_call"
    /\ stepNo = 0
    /\ RkIdle
    /\ ForceIdle
    /\ DiagIdle /\ EclIdle /\ RunIdle /\ BaryIdle /\ CliIdle

\* if (bodies.empty()) return;
Rk4Empty ==
    /\ pc = "rk_call"
    /\ Len(bodies) = 0
    /\ entry' = bodies
    /\ twin' = rk4Step(twin, dt)
    /\ stepNo' = stepNo + 1
    /\ pc' = "rk_done"
    /\ UNCHANGED <<bodies, dt, steps, rkVars, forceVars, laterVars>>

\* auto k1 = evaluateDerivatives(bodies);
Rk4K1 ==
    /\ pc = "rk_call"
    /\ Len(bodies) > 0
    /\ entry' = bodies
    /\ bodies' = evaluateDerivatives(bodies).bodies
    /\ k1' = evaluateDerivatives(bodies).d
    /\ pc' = "rk_s2"
    /\ UNCHANGED <<k2, k3, k4, s2, s3, s4, stepVars, forceVars, laterVars>>

\* auto s2 = buildIntermediateState(bodies, k1, dt * 0.5);
Rk4S2 ==
    /\ pc = "rk_s2"
    /\ s2' = buildIntermediateState(bodies, k1, QMul(dt, Half))
    /\ pc' = "rk_k2"
    /\ UNCHANGED <<bodies, entry, k1, k2, k3, k4, s3, s4, stepVars, forceVars, laterVars>>

\* a k2 evaluation that runs on the caller's collection instead of on a copy
Rk4K2_onCaller ==
    /\ pc = "rk_k2"
    /\ bodies' = evaluateDerivatives(s2).bodies
    /\ k2' = evaluateDerivatives(s2).d
    /\ pc' = "rk_s3"
    /\ UNCHANGED <<entry, s2, k1, k3, k4, s3, s4, stepVars, forceVars, laterVars>>

\* auto k2 = evaluateDerivatives(s2);
Rk4K2 ==
    /\ pc = "rk_k2"
    /\ s2' = evaluateDerivatives(s2).bodies
    /\ k2' = evaluateDerivatives(s2).d
    /\ pc' = "rk_s3"
    /\ UNCHANGED <<bodies, entry, k1, k3, k4, s3, s4, stepVars, forceVars, laterVars>>

\* an s3 that is built from the previous stage state s2
Rk4S3_fromS2 ==
    /\ pc = "rk_s3"
    /\ s3' = buildIntermediateState(s2, k2, QMul(dt, Half))
    /\ pc' = "rk_k3"
    /\ UNCHANGED <<bodies, entry, k1, k2, k3, k4, s2, s4, stepVars, forceVars, laterVars>>

\* auto s3 = buildIntermediateState(bodies, k2, dt * 0.5);
Rk4S3 ==
    /\ pc = "rk_s3"
    /\ s3' = buildIntermediateState(bodies, k2, QMul(dt, Half))
    /\ pc' = "rk_k3"
    /\ UNCHANGED <<bodies, entry, k1, k2, k3, k4, s2, s4, stepVars, forceVars, laterVars>>

\* auto k3 = evaluateDerivatives(s3);
Rk4K3 ==
    /\ pc = "rk_k3"
    /\ s3' = evaluateDerivatives(s3).bodies
    /\ k3' = evaluateDerivatives(s3).d
    /\ pc' = "rk_s4"
    /\ UNCHANGED <<bodies, entry, k1, k2, k4, s2, s4, stepVars, forceVars, laterVars>>

\* auto s4 = buildIntermediateState(bodies, k3, dt);
Rk4S4 ==
    /\ pc = "rk_s4"
    /\ s4' = buildIntermediateState(bodies, k3, dt)
    /\ pc' = "rk_k4"
    /\ UNCHANGED <<bodies, entry, k1, k2, k3, k4, s2, s3, stepVars, forceVars, laterVars>>

\* auto k4 = evaluateDerivatives(s4);
Rk4K4 ==
    /\ pc = "rk_k4"
    /\ s4' = evaluateDerivatives(s4).bodies
    /\ k4' = evaluateDerivatives(s4).d
    /\ pc' = "rk_comb"
    /\ UNCHANGED <<bodies, entry, k1, k2, k3, s2, s3, stepVars, forceVars, laterVars>>

\* the final loop, and the return
Rk4Combine ==
    /\ pc = "rk_comb"
    /\ bodies' = Combine(bodies, k1, k2, k3, k4, dt)
    /\ twin' = rk4Step(twin, dt)
    /\ stepNo' = stepNo + 1
    /\ pc' = "rk_done"
    /\ UNCHANGED <<entry, rkVars, dt, steps, forceVars, laterVars>>

\* the caller calls rk4Step again
Rk4Again ==
    /\ pc = "rk_done"
    /\ stepNo < steps
    /\ pc' = "rk_call"
    /\ k1' = <<>> /\ k2' = <<>> /\ k3' = <<>> /\ k4' = <<>>
    /\ s2' = <<>> /\ s3' = <<>> /\ s4' = <<>>
    /\ UNCHANGED <<bodies, entry, stepVars, forceVars, laterVars>>

Rk4Stages ==
    \/ Rk4K1 \/ Rk4S2 \/ Rk4K2 \/ Rk4S3 \/ Rk4K3 \/ Rk4S4 \/ Rk4K4 \/ Rk4Combine

NextRk4 == Rk4Empty \/ Rk4Stages \/ Rk4Again

SpecRk4 == InitRk4 /\ [][NextRk4]_vars

---------------------------------------------------------------------------
(* Properties of the force model *)

\* Newton's law for body i of bs: the sum over the other bodies j at a squared
\* distance of at least 1 of G m_j (pos_j - pos_i) / |pos_j - pos_i|^3
NewtonTerm(bs, i, j) ==
    LET d  == vec3_minus(bs[j].position, bs[i].position)
        d2 == length_squared(d)
    IN  IF j = i \/ QLt(d2, ONE) THEN ZeroVec
        ELSE vec3_scale(QDiv(QMul(GQ, bs[j].mass), QMul(d2, QSqrt(d2))), d)

RECURSIVE NewtonSum(_, _, _)
NewtonSum(bs, i, j) ==
    IF j = 0 THEN ZeroVec ELSE vec3_plus(NewtonSum(bs, i, j - 1), NewtonTerm(bs, i, j))

NewtonAcceleration(bs, i) == NewtonSum(bs, i, Len(bs))

\* sum over the bodies 1..k of mass times acceleration
RECURSIVE ForceSum(_, _)
ForceSum(bs, k) ==
    IF k = 0 THEN ZeroVec
    ELSE vec3_plus(ForceSum(bs, k - 1), vec3_scale(bs[k].mass, bs[k].acceleration))

LastCall == calls[Len(calls)]

\* what the latest computeGravitationalForce call added to body k
Increment(k) == vec3_minus(bodies[k].acceleration, before[k].acceleration)

\* C2: after updateAccelerations every body's acceleration is the Newtonian sum over
\* the other bodies at squared distance >= 1, computed from the positions and masses
\* alone (nothing of the stored acceleration survives); computeGravitationalForce was
\* called exactly once for every unordered pair i < j and never with i = j.
C2_UpdateAccelerations ==
    pc = "f_done" =>
        /\ \A i \in Indices(bodies) :
              bodies[i].acceleration = NewtonAcceleration(entry, i)
        /\ Len(calls) = (Len(bodies) * (Len(bodies) - 1)) \div 2
        /\ \A k \in 1..Len(calls) : calls[k] \in Pairs(bodies)
        /\ \A p \in Pairs(bodies) : Cardinality({k \in 1..Len(calls) : calls[k] = p}) = 1

\* three bodies that came with stale accelerations, one pair skipped and one not
C2_Witness ==
    /\ pc = "f_done"
    /\ Len(bodies) = 3
    /\ \E i \in Indices(entry) : entry[i].acceleration # ZeroVec
    /\ \E p \in Pairs(entry) : Skipped(entry, p[1], p[2])
    /\ \E p \in Pairs(entry) : ~Skipped(entry, p[1], p[2])
    /\ \E i \in Indices(bodies) : bodies[i].acceleration # ZeroVec

\* C3: one computeGravitationalForce(a, b) call adds increments with
\* m_a * dacc_a = -(m_b * dacc_b), and after updateAccelerations the sum of
\* m_i * acceleration_i over all bodies is zero.
C3_ThirdLaw ==
    /\ calls # <<>> =>
          vec3_scale(before[LastCall[1]].mass, Increment(LastCall[1]))
            = vec3_neg(vec3_scale(before[LastCall[2]].mass, Increment(LastCall[2])))
    /\ pc = "f_done" => ForceSum(bodies, Len(bodies)) = ZeroVec

\* a call on two bodies of different mass that did accumulate
C3_Witness ==
    /\ calls # <<>>
    /\ before[LastCall[1]].mass # before[LastCall[2]].mass
    /\ Increment(LastCall[1]) # ZeroVec
    /\ Increment(LastCall[2]) # ZeroVec

\* C4: a call on a pair with r2 < 1 leaves the whole collection as it found it and
\* executes no division; a call on a pair with r2 >= 1 adds G m_b r_vec / r^3 to a
\* and -G m_a r_vec / r^3 to b, changing both.
C4_ProximityGuard ==
    calls # <<>> =>
        LET i == LastCall[1]
            j == LastCall[2]
        IN  IF QLt(PairR2(before, i, j), ONE)
            THEN bodies = before /\ divs[Len(divs)] = 0
            ELSE /\ Increment(i) = NewtonTerm(before, i, j)
                 /\ Increment(j) = NewtonTerm(before, j, i)
                 /\ Increment(i) # ZeroVec
                 /\ Increment(j) # ZeroVec

\* a pass over a collection holding a pair exactly 1 m apart and a pair closer
\* than 1 m that is not coincident
C4_Witness ==
    /\ pc = "f_done"
    /\ \E p \in Pairs(entry) : PairR2(entry, p[1], p[2]) = ONE
    /\ \E p \in Pairs(entry) : /\ QLt(PairR2(entry, p[1], p[2]), ONE)
                                /\ PairR2(entry, p[1], p[2]) # ZERO
    /\ \E k \in 1..Len(divs) : divs[k] = 0
    /\ \E k \in 1..Len(divs) : divs[k] = 2

---------------------------------------------------------------------------
(* Properties of the integrator *)

\* f of the RK4 method on the stage state st: per body (velocity, Newton's
\* acceleration at the positions of st)
Rk4F(st) ==
    [i \in Indices(st) |-> [dpos |-> st[i].velocity, dvel |-> NewtonAcceleration(st, i)]]

\* state + c k: the (position, velocity) of st advanced by c times the derivative k
Rk4Plus(st, c, k) ==
    [i \in Indices(st) |->
        [st[i] EXCEPT !.position = vec3_plus(@, vec3_scale(c, k[i].dpos)),
                      !.velocity = vec3_plus(@, vec3_scale(c, k[i].dvel))]]

\* k1 + 2 k2 + 2 k3 + k4
Rk4Weighted(a, b, c, d) ==
    [i \in DOMAIN a |->
        [dpos |-> vec3_plus(vec3_plus(a[i].dpos, vec3_scale(R(2), vec3_plus(b[i].dpos, c[i].dpos))),
                            d[i].dpos),
         dvel |-> vec3_plus(vec3_plus(a[i].dvel, vec3_scale(R(2), vec3_plus(b[i].dvel, c[i].dvel))),
                            d[i].dvel)]]

\* (position, velocity) of every body of a agree with those of b
SameState(a, b) ==
    /\ Len(a) = Len(b)
    /\ \A i \in Indices(a) : a[i].position = b[i].position /\ a[i].velocity = b[i].velocity

\* the textbook step from the state st0 with the stage derivatives given
Rk4Textbook(st0, h, K1, K2, K3, K4) ==
    Rk4Plus(st0, Frac(h[1], 6 * h[2]), Rk4Weighted(K1, K2, K3, K4))

\* C1: when rk4Step returns from a call on a non-empty collection, the stage
\* derivatives are k1 = f(state), k2 = f(state + (dt/2) k1), k3 = f(state + (dt/2) k2),
\* k4 = f(state + dt k3) with state the collection as the call found it, the stage
\* states s2, s3, s4 are that state advanced by k1, k2, k3, and every body's
\* (position, velocity) is state + (dt/6)(k1 + 2 k2 + 2 k3 + k4)
C1_Rk4Formula ==
    (pc = "rk_done" /\ Len(entry) > 0) =>
        LET h2 == Frac(dt[1], 2 * dt[2])
            K1 == Rk4F(entry)
            S2 == Rk4Plus(entry, h2, K1)
            K2 == Rk4F(S2)
            S3 == Rk4Plus(entry, h2, K2)
            K3 == Rk4F(S3)
            S4 == Rk4Plus(entry, dt, K3)
            K4 == Rk4F(S4)
        IN  /\ DOMAIN k1 = DOMAIN K1 /\ \A i \in DOMAIN k1 : k1[i] = K1[i]
            /\ SameState(s2, S2)
            /\ DOMAIN k2 = DOMAIN K2 /\ \A i \in DOMAIN k2 : k2[i] = K2[i]
            /\ SameState(s3, S3)
            /\ DOMAIN k3 = DOMAIN K3 /\ \A i \in DOMAIN k3 : k3[i] = K3[i]
            /\ SameState(s4, S4)
            /\ DOMAIN k4 = DOMAIN K4 /\ \A i \in DOMAIN k4 : k4[i] = K4[i]
            /\ SameState(bodies, Rk4Textbook(entry, dt, K1, K2, K3, K4))

\* a two-body call has returned in which the bodies attract each other, move, and
\* the four stage derivatives differ
C1_Witness ==
    /\ pc = "rk_done"
    /\ Len(entry) = 2
    /\ k1[1].dvel # ZeroVec
    /\ k1[1].dpos # ZeroVec
    /\ k2[1] # k1[1] /\ k3[1] # k2[1] /\ k4[1] # k3[1]
    /\ s3[1].position # s2[1].position
    /\ bodies[1].position # entry[1].position
    /\ bodies[2].velocity # entry[2].velocity

\* rk4Step is between its first statement and its final loop
MidStage == pc \in {"rk_s2", "rk_k2", "rk_s3", "rk_k3", "rk_s4", "rk_k4", "rk_comb"}

\* C5 as stated: from entry until the final loop every field of the caller's
\* bodies keeps its entry value
C5_CallerUntouched == MidStage => bodies = entry

\* C5, amended: from entry until the final loop every body of the caller keeps
\* its entry name, mass, position and velocity; its stored acceleration is
\* overwritten once, by the k1 evaluation, which runs on the caller's collection
\* itself, and keeps that value; the k2, k3 and k4 evaluations each run on a copy
\* (s2, s3, s4) and leave the caller's bodies alone
C5_CallerStateKept ==
    MidStage =>
        /\ Len(bodies) = Len(entry)
        /\ \A i \in Indices(bodies) :
              /\ bodies[i].name = entry[i].name
              /\ bodies[i].mass = entry[i].mass
              /\ bodies[i].position = entry[i].position
              /\ bodies[i].velocity = entry[i].velocity
              /\ bodies[i].acceleration = k1[i].dvel
              /\ k1[i].dvel = NewtonAcceleration(entry, i)

\* the k4 evaluation has returned: the caller's acceleration is no longer the
\* stale entry value, and the copies s2 and s4 were moved and modified while the
\* caller's bodies were not
C5_Witness ==
    /\ pc = "rk_comb"
    /\ Len(bodies) = 2
    /\ bodies[1].acceleration # entry[1].acceleration
    /\ entry[1].acceleration # ZeroVec
    /\ s2[1].position # bodies[1].position
    /\ s2[1].acceleration # bodies[1].acceleration
    /\ s4[2].velocity # bodies[2].velocity

\* C6: after every rk4Step return, the caller's collection and a collection that
\* started with the same names, masses, positions and velocities but with other
\* stored accelerations, and went through the same calls, agree in name, mass,
\* position and velocity of every body
C6_StaleAccelerationUnread ==
    pc = "rk_done" =>
        /\ SameState(bodies, twin)
        /\ \A i \in Indices(bodies) :
              bodies[i].name = twin[i].name /\ bodies[i].mass = twin[i].mass

\* the second call has returned on two attracting bodies
C6_Witness ==
    /\ pc = "rk_done"
    /\ stepNo = 2
    /\ Len(bodies) = 2
    /\ k1[1].dvel # ZeroVec
    /\ bodies[1].velocity # entry[1].velocity
    /\ bodies[1].position # entry[1].position

---------------------------------------------------------------------------
(* Conservation diagnostics: physics::compute, N-body overload *)

\* Conservations C; every member 0.0
Conservations ==
    [kinetic_energy |-> ZERO, potential_energy |-> ZERO, total_energy |-> ZERO,
     P |-> ZeroVec, L |-> ZeroVec]

\* distance(a, b)
distance(a, b) == length(vec3_minus(a.position, b.position))

\* body of the first loop: kinetic energy and linear momentum of b
KineticStep(C, b) ==
    [C EXCEPT !.kinetic_energy = QAdd(@, QMul(QMul(Half, b.mass), length_squared(b.velocity))),
              !.P = vec3_plus(@, vec3_scale(b.mass, b.velocity))]

\* C.potential_energy -= G * a.mass * b.mass / r;
PotentialTerm(C, a, b, r) ==
    [C EXCEPT !.potential_energy = QSub(@, QDiv(QMul(QMul(GQ, a.mass), b.mass), r))]

\* a pair loop body that never skips a pair
PotentialGuarded_unguarded(C, a, b, r) == PotentialTerm(C, a, b, r)

\* a pair loop body that skips the pairs the force model skips
PotentialGuarded_forceTolerance(C, a, b, r) ==
    IF QLt(QMul(r, r), R(ProximityThreshold)) THEN C ELSE PotentialTerm(C, a, b, r)

\* if (r == 0.0) continue; and the term otherwise
PotentialGuarded(C, a, b, r) == IF r = ZERO THEN C ELSE PotentialTerm(C, a, b, r)

\* body of the pair loop for the pair (a, b)
PotentialStep(C, a, b) == PotentialGuarded(C, a, b, distance(a, b))

\* an angular momentum loop body with the factors of the cross product exchanged
AngularStep_swapped(C, b) ==
    [C EXCEPT !.L = vec3_plus(@, cross(vec3_scale(b.mass, b.velocity), b.position))]

\* body of the third loop: r x (m v) of b, with r = b.position
AngularStep(C, b) ==
    [C EXCEPT !.L = vec3_plus(@, cross(b.position, vec3_scale(b.mass, b.velocity)))]

\* C.total_energy = C.kinetic_energy + C.potential_energy
TotalStep(C) == [C EXCEPT !.total_energy = QAdd(C.kinetic_energy, C.potential_energy)]

RECURSIVE KineticLoop(_, _, _)
KineticLoop(C, bs, k) ==
    IF k > Len(bs) THEN C ELSE KineticLoop(KineticStep(C, bs[k]), bs, k + 1)

RECURSIVE PotentialLoop(_, _, _, _)
PotentialLoop(C, bs, i, j) ==
    IF i >= Len(bs) THEN C
    ELSE PotentialLoop(PotentialStep(C, bs[i], bs[j]), bs,
                       NextPair(Len(bs), i, j)[1], NextPair(Len(bs), i, j)[2])

RECURSIVE AngularLoop(_, _, _)
AngularLoop(C, bs, k) ==
    IF k > Len(bs) THEN C ELSE AngularLoop(AngularStep(C, bs[k]), bs, k + 1)

\* compute(bodies) as one call
compute(bs) ==
    IF Len(bs) = 0 THEN Conservations
    ELSE TotalStep(AngularLoop(PotentialLoop(KineticLoop(Conservations, bs, 1), bs, 1, 2), bs, 1))

ConservationsRepresentable(C) ==
    /\ Representable(C.kinetic_energy) /\ Representable(C.potential_energy)
    /\ Representable(C.total_energy)
    /\ VecRepresentable(C.P) /\ VecRepresentable(C.L)

\* sample bodies (mass, position, velocity); pairwise distances 0, 3, 4 and 5
DiagSamples ==
    { <<R(1), Vec(0, 0, 0), Vec(1, 0, 0)>>,
      <<R(3), Vec(0, 0, 0), Vec(0, -1, 2)>>,
      <<R(1), Vec(3, 0, 0), Vec(0, 2, 0)>>,
      <<R(3), Vec(0, 4, 0), Vec(1, 0, 0)>>,
      <<R(1), Vec(0, 4, 0), Vec(0, 0, 0)>>,
      <<Frac(1, 2), Vec(3, 4, 0), Vec(-2, 1, 1)>> }

DiagInputs(maxLen) ==
    UNION { { AsTuple([k \in 1..n |->
                  CelestialBody(BodyNames[k], c[k][1], c[k][2], c[k][3], Junk(k))]) :
                c \in [1..n -> DiagSamples] } :
            n \in 0..maxLen }

InitCompute ==
    /\ bodies \in DiagInputs(MaxBodies)
    /\ ConservationsRepresentable(compute(bodies))
    /\ entry = bodies
    /\ pc = "c_call"
    /\ cons = Conservations
    /\ ci = 0 /\ cj = 0
    /\ terms = <<>> /\ firstC = <<>>
    /\ RkIdle /\ ForceIdle /\ EclIdle /\ RunIdle /\ BaryIdle /\ CliIdle
    /\ dt = ZERO /\ steps = 0 /\ stepNo = 0 /\ twin = <<>>

\* if (bodies.empty()) return C;
ComputeEmpty ==
    /\ pc = "c_call"
    /\ Len(bodies) = 0
    /\ pc' = "c_done"
    /\ UNCHANGED <<bodies, entry, diagVars, forceVars, rkVars, stepVars, eclVars, cliVars, runVars, baryVars>>

\* the collection is not empty: the first loop starts
ComputeBegin ==
    /\ pc = "c_call"
    /\ Len(bodies) > 0
    /\ pc' = "c_kinetic"
    /\ ci' = 1
    /\ UNCHANGED <<bodies, entry, cons, cj, terms, forceVars, rkVars, stepVars,
                   eclVars, cliVars, runVars, firstC, baryVars>>

\* one iteration of the kinetic energy and linear momentum loop
ComputeKinetic ==
    /\ pc = "c_kinetic"
    /\ ci <= Len(bodies)
    /\ cons' = KineticStep(cons, bodies[ci])
    /\ ci' = ci + 1
    /\ UNCHANGED <<bodies, entry, pc, cj, terms, forceVars, rkVars, stepVars,
                   eclVars, cliVars, runVars, firstC, baryVars>>

\* the first loop ends, the pair loop starts at (0, 1)
ComputeKineticEnd ==
    /\ pc = "c_kinetic"
    /\ ci > Len(bodies)
    /\ pc' = "c_potential"
    /\ ci' = 1
    /\ cj' = 2
    /\ UNCHANGED <<bodies, entry, cons, terms, forceVars, rkVars, stepVars,
                   eclVars, cliVars, runVars, firstC, baryVars>>

\* one iteration of the pair loop
ComputePotential ==
    /\ pc = "c_potential"
    /\ ci < Len(bodies)
    /\ cons' = PotentialStep(cons, bodies[ci], bodies[cj])
    /\ terms' = Append(terms, [i |-> ci, j |-> cj,
                               added |-> cons'.potential_energy # cons.potential_energy])
    /\ ci' = NextPair(Len(bodies), ci, cj)[1]
    /\ cj' = NextPair(Len(bodies), ci, cj)[2]
    /\ UNCHANGED <<bodies, entry, pc, forceVars, rkVars, stepVars,
                   eclVars, cliVars, runVars, firstC, baryVars>>

\* the pair loop ends, the angular momentum loop starts
ComputePotentialEnd ==
    /\ pc = "c_potential"
    /\ ci >= Len(bodies)
    /\ pc' = "c_angular"
    /\ ci' = 1
    /\ UNCHANGED <<bodies, entry, cons, cj, terms, forceVars, rkVars, stepVars,
                   eclVars, cliVars, runVars, firstC, baryVars>>

\* one iteration of the angular momentum loop
ComputeAngular ==
    /\ pc = "c_angular"
    /\ ci <= Len(bodies)
    /\ cons' = AngularStep(cons, bodies[ci])
    /\ ci' = ci + 1
    /\ UNCHANGED <<bodies, entry, pc, cj, terms, forceVars, rkVars, stepVars,
                   eclVars, cliVars, runVars, firstC, baryVars>>

\* the third loop ends; total energy; return C
ComputeTotal ==
    /\ pc = "c_angular"
    /\ ci > Len(bodies)
    /\ cons' = TotalStep(cons)
    /\ pc' = "c_done"
    /\ UNCHANGED <<bodies, entry, ci, cj, terms, forceVars, rkVars, stepVars,
                   eclVars, cliVars, runVars, firstC, baryVars>>

NextCompute ==
    \/ ComputeEmpty \/ ComputeBegin
    \/ ComputeKinetic \/ ComputeKineticEnd
    \/ ComputePotential \/ ComputePotentialEnd
    \/ ComputeAngular \/ ComputeTotal

SpecCompute == InitCompute /\ [][NextCompute]_vars

---------------------------------------------------------------------------
(* Properties of the diagnostics *)

\* the sum of the numbers of the sequence q
RECURSIVE SumSeq(_)
SumSeq(q) == IF Len(q) = 0 THEN ZERO ELSE QAdd(q[1], SumSeq(Tail(q)))

\* the sum of the vectors of the sequence q
RECURSIVE SumVec(_)
SumVec(q) == IF Len(q) = 0 THEN ZeroVec ELSE vec3_plus(q[1], SumVec(Tail(q)))

\* bodies i and j of bs are at the same place
Coincident(bs, i, j) == bs[i].position = bs[j].position

\* m_i m_j / r_ij for a non-coincident pair i < j, and 0 for every other (i, j)
PairEnergy(bs, i, j) ==
    IF i < j /\ ~Coincident(bs, i, j)
    THEN LET d == vec3_minus(bs[j].position, bs[i].position)
         IN  QDiv(QMul(bs[i].mass, bs[j].mass), QSqrt(dot(d, d)))
    ELSE ZERO

\* - G times the sum of m_i m_j / r_ij over the non-coincident pairs i < j
NewtonPotential(bs) ==
    QNeg(QMul(GQ, SumSeq(AsTuple([i \in Indices(bs) |->
                    SumSeq(AsTuple([j \in Indices(bs) |-> PairEnergy(bs, i, j)]))]))))

\* the sum of m |v|^2 / 2
KineticEnergy(bs) ==
    SumSeq(AsTuple([i \in Indices(bs) |->
        QDiv(QMul(bs[i].mass, dot(bs[i].velocity, bs[i].velocity)), R(2))]))

\* the sum of m v
LinearMomentum(bs) ==
    SumVec(AsTuple([i \in Indices(bs) |-> vec3_scale(bs[i].mass, bs[i].velocity)]))

\* the sum of r x (m v), r being the position in the coordinate frame
AngularMomentum(bs) ==
    SumVec(AsTuple([i \in Indices(bs) |->
        cross(bs[i].position, vec3_scale(bs[i].mass, bs[i].velocity))]))

\* the pairs the potential loop visited, in order
VisitedPairs == AsTuple([k \in DOMAIN terms |-> <<terms[k].i, terms[k].j>>])

\* C7: when compute returns, kinetic_energy is the sum of m |v|^2 / 2,
\* potential_energy is - G times the sum of m_i m_j / r_ij over the non-coincident
\* pairs, each unordered pair visited once, total_energy is their sum, P is the sum
\* of m v and L the sum of r x (m v) about the coordinate origin; on an empty
\* collection every field is 0
C7_ComputeFormulas ==
    pc = "c_done" =>
        /\ cons.kinetic_energy = KineticEnergy(bodies)
        /\ cons.potential_energy = NewtonPotential(bodies)
        /\ cons.total_energy = QAdd(KineticEnergy(bodies), NewtonPotential(bodies))
        /\ cons.P = LinearMomentum(bodies)
        /\ cons.L = AngularMomentum(bodies)
        /\ {VisitedPairs[k] : k \in DOMAIN VisitedPairs} = Pairs(bodies)
        /\ Len(VisitedPairs) = Cardinality(Pairs(bodies))
        /\ Len(bodies) = 0 => cons = Conservations
        /\ bodies = entry

\* compute has returned on three bodies that move, attract each other and have
\* an angular momentum about the origin
C7_Witness ==
    /\ pc = "c_done"
    /\ Len(bodies) = 3
    /\ cons.kinetic_energy # ZERO
    /\ cons.potential_energy # ZERO
    /\ cons.total_energy # cons.kinetic_energy
    /\ cons.P # ZeroVec
    /\ cons.L # ZeroVec
    /\ Len(terms) = 3

\* some two bodies of bs are at the same place
HasCoincidentPair(bs) == \E p \in Pairs(bs) : Coincident(bs, p[1], p[2])

\* C8: when two bodies have equal positions, the pair loop adds nothing for
\* that pair and adds the term of every other pair, and compute returns a finite
\* potential_energy and total_energy
C8_CoincidentPairSkipped ==
    /\ \A k \in DOMAIN terms :
          terms[k].added <=> ~Coincident(bodies, terms[k].i, terms[k].j)
    /\ (pc = "c_done" /\ HasCoincidentPair(bodies)) =>
          /\ IsFinite(cons.potential_energy)
          /\ IsFinite(cons.total_energy)
          /\ cons.potential_energy = NewtonPotential(bodies)

\* compute has returned on three bodies two of which coincide; the pair loop
\* skipped that pair and added the two other terms
C8_Witness ==
    /\ pc = "c_done"
    /\ Len(bodies) = 3
    /\ Coincident(bodies, 1, 2)
    /\ ~Coincident(bodies, 1, 3)
    /\ \E k \in DOMAIN terms : terms[k].i = 1 /\ terms[k].j = 2 /\ ~terms[k].added
    /\ Cardinality({k \in DOMAIN terms : terms[k].added}) = 2
    /\ cons.potential_energy # ZERO

---------------------------------------------------------------------------
(* Eclipse geometry: computeSolarEclipse *)

EclipseResult(c, u, p, t) ==
    [shadowCenter |-> c, umbraRadius |-> u, penumbraRadius |-> p, eclipseType |-> t]

\* the units of length positions are given in: metres, or 10 000 km where the
\* distances are astronomical and metres exceed the arithmetic's range
Metre == 1

TenThousandKm == 10000000

\* the constant of c metres expressed in the unit of length
InUnit(c, unit) == Frac(c, unit)

\* a classification that tests for a partial eclipse before the annular one
eclipseType_partialFirst(unit, umbraRadius, penumbraRadius) ==
    IF QGt(umbraRadius, InUnit(R_EARTH, unit)) THEN 1
    ELSE IF QGt(penumbraRadius, ZERO) THEN 3
    ELSE IF QLt(umbraRadius, ZERO) /\ QGt(penumbraRadius, InUnit(R_EARTH, unit)) THEN 2
    ELSE 0

\* a classification whose last test asks for a penumbra wider than the Earth too
eclipseType_widePenumbraOnly(unit, umbraRadius, penumbraRadius) ==
    IF QGt(umbraRadius, InUnit(R_EARTH, unit)) THEN 1
    ELSE IF QLt(umbraRadius, ZERO) /\ QGt(penumbraRadius, InUnit(R_EARTH, unit)) THEN 2
    ELSE IF QGt(penumbraRadius, InUnit(R_EARTH, unit)) THEN 3
    ELSE 0

\* int eclipseType = 0; if ... else if ... else if ...
eclipseType(unit, umbraRadius, penumbraRadius) ==
    IF QGt(umbraRadius, InUnit(R_EARTH, unit)) THEN 1
    ELSE IF QLt(umbraRadius, ZERO) /\ QGt(penumbraRadius, InUnit(R_EARTH, unit)) THEN 2
    ELSE IF QGt(penumbraRadius, ZERO) THEN 3
    ELSE 0

\* the result for the shadow centre and the radii found
Classified(unit, shadowCenter, umbraRadius, penumbraRadius) ==
    EclipseResult(shadowCenter, umbraRadius, penumbraRadius,
                  eclipseType(unit, umbraRadius, penumbraRadius))

\* a shadow geometry whose umbra length is taken over R_SUN + R_MOON as well
ShadowGeometry_sameLength(unit, E, ME, d_em, d_sm) ==
    LET L_p == QDiv(QMul(InUnit(R_MOON, unit), d_sm),
                    QAdd(InUnit(R_SUN, unit), InUnit(R_MOON, unit)))
    IN  Classified(unit,
                   vec3_minus(E, vec3_scale(InUnit(R_EARTH, unit), unit_vector(ME))),
                   QMul(InUnit(R_MOON, unit), QSub(ONE, QDiv(d_em, L_p))),
                   QMul(InUnit(R_MOON, unit), QAdd(ONE, QDiv(d_em, L_p))))

\* a shadow geometry whose umbra widens with the distance as the penumbra does
ShadowGeometry_umbraWidens(unit, E, ME, d_em, d_sm) ==
    LET L_u == QDiv(QMul(InUnit(R_MOON, unit), d_sm),
                    QSub(InUnit(R_SUN, unit), InUnit(R_MOON, unit)))
        L_p == QDiv(QMul(InUnit(R_MOON, unit), d_sm),
                    QAdd(InUnit(R_SUN, unit), InUnit(R_MOON, unit)))
    IN  Classified(unit,
                   vec3_minus(E, vec3_scale(InUnit(R_EARTH, unit), unit_vector(ME))),
                   QMul(InUnit(R_MOON, unit), QAdd(ONE, QDiv(d_em, L_u))),
                   QMul(InUnit(R_MOON, unit), QAdd(ONE, QDiv(d_em, L_p))))

\* computeSolarEclipse past the degenerate return, for ME, d_em and d_sm
ShadowGeometry(unit, E, ME, d_em, d_sm) ==
    LET L_u == QDiv(QMul(InUnit(R_MOON, unit), d_sm),
                    QSub(InUnit(R_SUN, unit), InUnit(R_MOON, unit)))
        L_p == QDiv(QMul(InUnit(R_MOON, unit), d_sm),
                    QAdd(InUnit(R_SUN, unit), InUnit(R_MOON, unit)))
    IN  Classified(unit,
                   vec3_minus(E, vec3_scale(InUnit(R_EARTH, unit), unit_vector(ME))),
                   QMul(InUnit(R_MOON, unit), QSub(ONE, QDiv(d_em, L_u))),
                   QMul(InUnit(R_MOON, unit), QAdd(ONE, QDiv(d_em, L_p))))

\* a degenerate test that looks at the Earth-Moon distance only
Degenerate_emOnly(d_em, d_sm) == QLe(d_em, ZERO)

\* d_em <= 0.0 || d_sm <= 0.0
Degenerate(d_em, d_sm) == QLe(d_em, ZERO) \/ QLe(d_sm, ZERO)

\* a call that goes on to the shadow geometry whatever the distances
EclipseFrom_unguarded(unit, E, ME, d_em, d_sm) == ShadowGeometry(unit, E, ME, d_em, d_sm)

\* computeSolarEclipse from the distances on
EclipseFrom(unit, E, ME, d_em, d_sm) ==
    IF Degenerate(d_em, d_sm) THEN EclipseResult(E, ZERO, ZERO, 0)
    ELSE ShadowGeometry(unit, E, ME, d_em, d_sm)

\* the divisions a call evaluates: none on the early return; L_u, L_p, d_em / L_u,
\* d_em / L_p and the v / v.length() of unit_vector otherwise
EclipseDivisions(d_em, d_sm) == IF Degenerate(d_em, d_sm) THEN 0 ELSE 5

\* computeSolarEclipse on positions given in the unit of length
computeSolarEclipseIn(unit, S, E, M) ==
    EclipseFrom(unit, E, vec3_minus(E, M), length(vec3_minus(E, M)), length(vec3_minus(M, S)))

\* computeSolarEclipse on positions in metres
computeSolarEclipse(S, E, M) == computeSolarEclipseIn(Metre, S, E, M)

EclipseRepresentable(e) ==
    /\ VecRepresentable(e.shadowCenter)
    /\ Representable(e.umbraRadius) /\ Representable(e.penumbraRadius)

\* sample Sun positions, Sun-to-Moon offsets (lengths 0, 200, 400, 500) and
\* Moon-to-Earth offsets (lengths 0, 1/2, 1, 2, 3, 5)
SunPoints == { Vec(0, 0, 0), Vec(7, -1, 2) }

SunToMoon == { Vec(0, 0, 0), Vec(200, 0, 0), Vec(400, 0, 0), Vec(0, 240, 320), Vec(0, 300, 400) }

MoonToEarth ==
    { Vec(0, 0, 0), <<Half, ZERO, ZERO>>, Vec(1, 0, 0), Vec(0, 2, 0), Vec(3, 0, 0),
      Vec(1, 2, 2), Vec(0, 3, 4) }

EclipseInputs ==
    { [S |-> s0, M |-> vec3_plus(s0, sm), E |-> vec3_plus(vec3_plus(s0, sm), me)] :
        s0 \in SunPoints, sm \in SunToMoon, me \in MoonToEarth }

InitEclipse ==
    /\ sem \in EclipseInputs
    /\ EclipseRepresentable(computeSolarEclipse(sem.S, sem.E, sem.M))
    /\ result = <<>>
    /\ eclDivs = 0
    /\ pc = "e_call"
    /\ bodies = <<>> /\ entry = <<>>
    /\ RkIdle /\ ForceIdle /\ DiagIdle /\ RunIdle /\ BaryIdle /\ CliIdle
    /\ dt = ZERO /\ steps = 0 /\ stepNo = 0 /\ twin = <<>>

\* the early return: Earth and Moon, or Moon and Sun, at the same place
EclipseDegenerate ==
    /\ pc = "e_call"
    /\ Degenerate(length(vec3_minus(sem.E, sem.M)), length(vec3_minus(sem.M, sem.S)))
    /\ result' = computeSolarEclipse(sem.S, sem.E, sem.M)
    /\ eclDivs' = EclipseDivisions(length(vec3_minus(sem.E, sem.M)),
                                   length(vec3_minus(sem.M, sem.S)))
    /\ pc' = "e_done"
    /\ UNCHANGED <<bodies, entry, sem, forceVars, rkVars, stepVars, diagVars, runVars,
                   cliVars, baryVars>>

\* the shadow geometry and the classification
EclipseShadow ==
    /\ pc = "e_call"
    /\ ~Degenerate(length(vec3_minus(sem.E, sem.M)), length(vec3_minus(sem.M, sem.S)))
    /\ result' = computeSolarEclipse(sem.S, sem.E, sem.M)
    /\ eclDivs' = EclipseDivisions(length(vec3_minus(sem.E, sem.M)),
                                   length(vec3_minus(sem.M, sem.S)))
    /\ pc' = "e_done"
    /\ UNCHANGED <<bodies, entry, sem, forceVars, rkVars, stepVars, diagVars, runVars,
                   cliVars, baryVars>>

NextEclipse == EclipseDegenerate \/ EclipseShadow

SpecEclipse == InitEclipse /\ [][NextEclipse]_vars

---------------------------------------------------------------------------
(* Properties of the eclipse engine *)

\* the input is not degenerate: the Moon is neither at the Earth nor at the Sun
NonDegenerate == sem.E # sem.M /\ sem.M # sem.S

\* C10: for non-degenerate input the type code is 1 if umbraRadius > R_EARTH,
\* else 2 if umbraRadius < 0 and penumbraRadius > R_EARTH, else 3 if
\* penumbraRadius > 0, else 0; the code returned is always one of 0, 1, 2, 3
C10_ClassificationOrder ==
    pc = "e_done" =>
        /\ result.eclipseType \in {0, 1, 2, 3}
        /\ NonDegenerate =>
              /\ QGt(result.umbraRadius, R(R_EARTH)) => result.eclipseType = 1
              /\ (~QGt(result.umbraRadius, R(R_EARTH))
                    /\ QLt(result.umbraRadius, ZERO)
                    /\ QGt(result.penumbraRadius, R(R_EARTH))) => result.eclipseType = 2
              /\ (~QGt(result.umbraRadius, R(R_EARTH))
                    /\ ~(QLt(result.umbraRadius, ZERO) /\ QGt(result.penumbraRadius, R(R_EARTH)))
                    /\ QGt(result.penumbraRadius, ZERO)) => result.eclipseType = 3
              /\ (~QGt(result.umbraRadius, R(R_EARTH))
                    /\ ~(QLt(result.umbraRadius, ZERO) /\ QGt(result.penumbraRadius, R(R_EARTH)))
                    /\ ~QGt(result.penumbraRadius, ZERO)) => result.eclipseType = 0

\* a non-degenerate call returned type 2 with radii that also meet the test of
\* type 3, so that the order of the tests decided
C10_Witness ==
    /\ pc = "e_done"
    /\ NonDegenerate
    /\ result.eclipseType = 2
    /\ QLt(result.umbraRadius, ZERO)
    /\ QGt(result.penumbraRadius, R(R_EARTH))
    /\ QGt(result.penumbraRadius, ZERO)

\* the distances the claims speak of: d_em = |E - M| and d_sm = |M - S|
Dem == length(vec3_minus(sem.E, sem.M))

Dsm == length(vec3_minus(sem.M, sem.S))

\* L_u = R_MOON d_sm / (R_SUN - R_MOON) and L_p = R_MOON d_sm / (R_SUN + R_MOON)
UmbraLength == QDiv(QMul(R(R_MOON), Dsm), R(R_SUN - R_MOON))

PenumbraLength == QDiv(QMul(R(R_MOON), Dsm), R(R_SUN + R_MOON))

\* the offset from the shadow centre to E, in units of R_EARTH
CentreOffset == vec3_div(vec3_minus(sem.E, result.shadowCenter), R(R_EARTH))

\* C11: for d_em > 0 and d_sm > 0 the result has umbraRadius = R_MOON (1 - d_em/L_u),
\* penumbraRadius = R_MOON (1 + d_em/L_p) and shadowCenter = E - R_EARTH (E - M)/d_em,
\* which lies on the line through M and E, on the Moon's side, at distance R_EARTH from E
C11_ShadowFormulas ==
    (pc = "e_done" /\ QGt(Dem, ZERO) /\ QGt(Dsm, ZERO)) =>
        /\ result.umbraRadius = QMul(R(R_MOON), QSub(ONE, QDiv(Dem, UmbraLength)))
        /\ result.penumbraRadius = QMul(R(R_MOON), QAdd(ONE, QDiv(Dem, PenumbraLength)))
        /\ result.shadowCenter =
              vec3_minus(sem.E, vec3_scale(R(R_EARTH),
                                           vec3_div(vec3_minus(sem.E, sem.M), Dem)))
        /\ length(CentreOffset) = ONE
        /\ cross(CentreOffset, vec3_minus(sem.E, sem.M)) = ZeroVec
        /\ QGt(dot(CentreOffset, vec3_minus(sem.E, sem.M)), ZERO)

\* a call with the Moon off the coordinate axes as seen from the Earth and the
\* Sun elsewhere returned a negative umbra radius and a positive penumbra radius
C11_Witness ==
    /\ pc = "e_done"
    /\ QGt(Dem, ZERO) /\ QGt(Dsm, ZERO)
    /\ vec3_minus(sem.E, sem.M) = Vec(1, 2, 2)
    /\ sem.S # ZeroVec
    /\ QLt(result.umbraRadius, ZERO)
    /\ QGt(result.penumbraRadius, R(R_MOON))

\* C12: if E = M or M = S the call returns shadowCenter = E, both radii 0 and
\* type 0, and has evaluated no division and no normalisation
C12_DegenerateShortCircuit ==
    (pc = "e_done" /\ (sem.E = sem.M \/ sem.M = sem.S)) =>
        /\ result = EclipseResult(sem.E, ZERO, ZERO, 0)
        /\ eclDivs = 0

\* a call with the Moon at the Sun and the Earth elsewhere has returned
C12_Witness ==
    /\ pc = "e_done"
    /\ sem.M = sem.S
    /\ sem.E # sem.M
    /\ result.shadowCenter = sem.E
    /\ result.eclipseType = 0

\* C13 as stated: with E and M coincident (d_em = 0) both radii returned are
\* R_MOON, and they are finite
C13_RadiiOfOccluder ==
    (pc = "e_done" /\ Dem = ZERO) =>
        /\ result.umbraRadius = QMul(R(R_MOON), QSub(ONE, ZERO))
        /\ result.penumbraRadius = QMul(R(R_MOON), QAdd(ONE, ZERO))
        /\ IsFinite(result.umbraRadius) /\ IsFinite(result.penumbraRadius)

\* C13 amended: with E and M coincident (d_em = 0) both radii returned are 0,
\* the type is 0 and the centre is E; every value is finite and no division was
\* evaluated
C13_CoincidentZeroRadii ==
    (pc = "e_done" /\ Dem = ZERO) =>
        /\ result.umbraRadius = ZERO
        /\ result.penumbraRadius = ZERO
        /\ result.eclipseType = 0
        /\ result.shadowCenter = sem.E
        /\ VecFinite(result.shadowCenter)
        /\ eclDivs = 0

\* a call with the Moon at the Earth and the Sun 400 m away has returned
C13_Witness ==
    /\ pc = "e_done"
    /\ sem.E = sem.M
    /\ Dsm = R(400)
    /\ result.umbraRadius # R(R_MOON)
    /\ result.penumbraRadius = ZERO

---------------------------------------------------------------------------
(* computeSolarEclipse at astronomical distances, lengths in units of 10 000 km *)

\* the Moon's mean distance from the Earth: 384 400 km
MoonMeanDistance == Frac(3844, 100)

\* Sun-Moon distances from 147 000 000 km to 152 000 000 km in steps of
\* 20 000 km, which puts the Earth between 0.985 and 1.019 AU from the Sun
MinSunMoon == 7350

MaxSunMoon == 7600

SunMoonDistances == { R(2 * k) : k \in MinSunMoon..MaxSunMoon }

\* the directions from the Sun to the Earth
AlignDirections ==
    { Vec(1, 0, 0), Vec(-1, 0, 0), Vec(0, 1, 0), Vec(0, -1, 0), Vec(0, 0, 1), Vec(0, 0, -1) }

\* the Sun at the origin, the Moon at distance d in direction u, and the Earth
\* further along the same line at the Moon's mean distance from the Moon
AlignedInputs ==
    { [S |-> ZeroVec, M |-> vec3_scale(d, u), E |-> vec3_scale(QAdd(d, MoonMeanDistance), u)] :
        d \in SunMoonDistances, u \in AlignDirections }

InitAligned ==
    /\ sem \in AlignedInputs
    /\ EclipseRepresentable(computeSolarEclipseIn(TenThousandKm, sem.S, sem.E, sem.M))
    /\ result = <<>>
    /\ eclDivs = 0
    /\ pc = "a_call"
    /\ bodies = <<>> /\ entry = <<>>
    /\ RkIdle /\ ForceIdle /\ DiagIdle /\ RunIdle /\ BaryIdle /\ CliIdle
    /\ dt = ZERO /\ steps = 0 /\ stepNo = 0 /\ twin = <<>>

\* the call on the aligned bodies
AlignedCall ==
    /\ pc = "a_call"
    /\ result' = computeSolarEclipseIn(TenThousandKm, sem.S, sem.E, sem.M)
    /\ eclDivs' = EclipseDivisions(length(vec3_minus(sem.E, sem.M)),
                                   length(vec3_minus(sem.M, sem.S)))
    /\ pc' = "a_done"
    /\ UNCHANGED <<bodies, entry, sem, forceVars, rkVars, stepVars, diagVars, runVars,
                   cliVars, baryVars>>

NextAligned == AlignedCall

SpecAligned == InitAligned /\ [][NextAligned]_vars

\* C14: with the Moon directly between the Sun and the Earth at its mean distance,
\* the Earth about 1 AU from the Sun and the radii of utils.h, the type returned
\* is 1 (total) or 2 (annular), and umbraRadius < 0 exactly when it is annular
C14_TotalOrAnnular ==
    pc = "a_done" =>
        /\ result.eclipseType \in {1, 2}
        /\ QLt(result.umbraRadius, ZERO) <=> result.eclipseType = 2

\* what the code returns instead: type 3 (partial), the umbra radius negative
\* and the penumbra radius below R_EARTH
AlignedPartial ==
    pc = "a_done" =>
        /\ result.eclipseType = 3
        /\ QLt(result.umbraRadius, ZERO)
        /\ QGt(result.penumbraRadius, ZERO)
        /\ QLt(result.penumbraRadius, InUnit(R_EARTH, TenThousandKm))

---------------------------------------------------------------------------
(* Conservation diagnostics: physics::compute, 3-body overload *)

\* angular_term(b): r x (m v)
angular_term(b) == cross(b.position, vec3_scale(b.mass, b.velocity))

\* 0.5 * m * v2(b)
KineticOf(b) == QMul(QMul(Half, b.mass), length_squared(b.velocity))

\* a.mass * b.mass / r
PairOver(a, b, r) == QDiv(QMul(a.mass, b.mass), r)

\* the members of C from the three distances on
compute3From(sun, earth, moon, r_se, r_sm, r_em, ke) ==
    [kinetic_energy |-> ke,
     potential_energy |->
        QMul(QNeg(GQ), QAdd(QAdd(PairOver(sun, earth, r_se), PairOver(sun, moon, r_sm)),
                            PairOver(earth, moon, r_em))),
     total_energy |->
        QAdd(ke, QMul(QNeg(GQ), QAdd(QAdd(PairOver(sun, earth, r_se),
                                          PairOver(sun, moon, r_sm)),
                                     PairOver(earth, moon, r_em)))),
     P |-> vec3_plus(vec3_plus(vec3_scale(sun.mass, sun.velocity),
                               vec3_scale(earth.mass, earth.velocity)),
                     vec3_scale(moon.mass, moon.velocity)),
     L |-> vec3_plus(vec3_plus(angular_term(sun), angular_term(earth)), angular_term(moon))]

\* compute(sun, earth, moon)
compute3(sun, earth, moon) ==
    compute3From(sun, earth, moon, distance(sun, earth), distance(sun, moon),
                 distance(earth, moon),
                 QAdd(QAdd(KineticOf(sun), KineticOf(earth)), KineticOf(moon)))

---------------------------------------------------------------------------
(* The core operations on bodies that share a position *)

\* sample bodies (mass, position, velocity)
CoSamples ==
    { <<R(1), Vec(0, 0, 0), Vec(0, 0, 0)>>,
      <<R(3), Vec(0, 0, 0), Vec(1, 0, 0)>>,
      <<R(1), Vec(2, 0, 0), Vec(0, 0, 0)>>,
      <<R(3), Vec(2, 0, 0), Vec(0, -1, 0)>>,
      <<R(1), Vec(0, 4, 0), Vec(0, 0, 0)>>,
      <<R(3), Vec(1, 2, 2), Vec(1, 0, 0)>> }

\* two or more bodies share a position
SharesPosition(bs) == \E p \in Pairs(bs) : bs[p[1]].position = bs[p[2]].position

\* a Sun, an Earth and a Moon of which at least two share a position
CoInputs ==
    { bs \in { AsTuple([k \in 1..3 |->
                   CelestialBody(BodyNames[k], c[k][1], c[k][2], c[k][3], Junk(k))]) :
               c \in [1..3 -> CoSamples] } : SharesPosition(bs) }

\* every operation stays within the model's arithmetic on bs
CoRepresentable(bs, h) ==
    /\ ForceRepresentable(bs)
    /\ BodiesRepresentable(rk4Step(bs, h))
    /\ ConservationsRepresentable(compute(bs))
    /\ ConservationsRepresentable(compute3(bs[1], bs[2], bs[3]))
    /\ EclipseRepresentable(computeSolarEclipse(bs[1].position, bs[2].position, bs[3].position))

CoAdmissible(h) == {bs \in CoInputs : CoRepresentable(bs, h)}

InitCoincident ==
    /\ \E h \in RkTimesteps : dt = h /\ bodies \in CoAdmissible(h)
    /\ entry = bodies
    /\ pc = "co_call"
    /\ steps = 1 /\ stepNo = 0 /\ twin = <<>>
    /\ RkIdle /\ ForceIdle /\ DiagIdle /\ EclIdle /\ RunIdle /\ BaryIdle /\ CliIdle

\* updateAccelerations(bodies)
CoUpdateAccelerations ==
    /\ pc = "co_call"
    /\ bodies' = updateAccelerations(bodies)
    /\ pc' = "co_force"
    /\ UNCHANGED <<entry, forceVars, rkVars, stepVars, laterVars>>

\* rk4Step(bodies, dt)
CoRk4Step ==
    /\ pc = "co_call"
    /\ bodies' = rk4Step(bodies, dt)
    /\ pc' = "co_rk4"
    /\ UNCHANGED <<entry, forceVars, rkVars, stepVars, laterVars>>

\* compute(bodies), the N-body overload
CoComputeN ==
    /\ pc = "co_call"
    /\ cons' = compute(bodies)
    /\ pc' = "co_computeN"
    /\ UNCHANGED <<bodies, entry, ci, cj, terms, forceVars, rkVars, stepVars,
                   eclVars, cliVars, runVars, firstC, baryVars>>

\* compute(sun, earth, moon), the 3-body overload
CoCompute3 ==
    /\ pc = "co_call"
    /\ cons' = compute3(bodies[1], bodies[2], bodies[3])
    /\ pc' = "co_compute3"
    /\ UNCHANGED <<bodies, entry, ci, cj, terms, forceVars, rkVars, stepVars,
                   eclVars, cliVars, runVars, firstC, baryVars>>

\* computeSolarEclipse(S, E, M) on the positions of the three bodies
CoEclipse ==
    /\ pc = "co_call"
    /\ sem' = [S |-> bodies[1].position, E |-> bodies[2].position, M |-> bodies[3].position]
    /\ result' = computeSolarEclipse(bodies[1].position, bodies[2].position, bodies[3].position)
    /\ eclDivs' = EclipseDivisions(length(vec3_minus(bodies[2].position, bodies[3].position)),
                                   length(vec3_minus(bodies[3].position, bodies[1].position)))
    /\ pc' = "co_eclipse"
    /\ UNCHANGED <<bodies, entry, forceVars, rkVars, stepVars, diagVars, runVars,
                   cliVars, baryVars>>

NextCoincident == CoUpdateAccelerations \/ CoRk4Step \/ CoComputeN \/ CoCompute3 \/ CoEclipse

SpecCoincident == InitCoincident /\ [][NextCoincident]_vars

\* no field of any body is Inf or NaN
BodiesFinite(bs) ==
    \A k \in Indices(bs) : /\ IsFinite(bs[k].mass)
                            /\ VecFinite(bs[k].position)
                            /\ VecFinite(bs[k].velocity)
                            /\ VecFinite(bs[k].acceleration)

ConservationsFinite(C) ==
    /\ IsFinite(C.kinetic_energy) /\ IsFinite(C.potential_energy) /\ IsFinite(C.total_energy)
    /\ VecFinite(C.P) /\ VecFinite(C.L)

EclipseFinite(e) ==
    VecFinite(e.shadowCenter) /\ IsFinite(e.umbraRadius) /\ IsFinite(e.penumbraRadius)

\* C15: on a body set in which two or more bodies share a position,
\* updateAccelerations, rk4Step, both compute overloads and computeSolarEclipse
\* return results free of Inf and NaN
C15_CoincidentFinite ==
    /\ pc \in {"co_force", "co_rk4"} => BodiesFinite(bodies)
    /\ pc \in {"co_computeN", "co_compute3"} => ConservationsFinite(cons)
    /\ pc = "co_eclipse" => EclipseFinite(result)

\* what holds: every operation but the 3-body overload returns finite results,
\* and the 3-body overload returns an infinite potential and total energy
CoincidentAllButCompute3 ==
    /\ pc \in {"co_force", "co_rk4"} => BodiesFinite(bodies)
    /\ pc = "co_computeN" => ConservationsFinite(cons)
    /\ pc = "co_eclipse" => EclipseFinite(result)
    /\ pc = "co_compute3" => cons.potential_energy = NegInf /\ cons.total_energy = NegInf

---------------------------------------------------------------------------
(* The runner: runSimulation *)

\* std::sqrt(v[0]*v[0] + v[1]*v[1] + v[2]*v[2])
Magnitude(v) ==
    QSqrt(QAdd(QAdd(QMul(v[1], v[1]), QMul(v[2], v[2])), QMul(v[3], v[3])))

\* E0, L0 and P0mag taken from C0
Baseline(C0) ==
    [E0 |-> C0.total_energy, L0 |-> Magnitude(C0.L), P0mag |-> Magnitude(C0.P)]

\* an energy drift divided by E0 itself
dE_rel_signed(E, E0) == QDiv(QSub(E, E0), E0)

\* double dE = (C.total_energy - E0) / std::abs(E0);
dE_rel(E, E0) == QDiv(QSub(E, E0), QAbs(E0))

\* double dL = (Lmag - L0) / L0;
dL_rel(Lmag, L0) == QDiv(QSub(Lmag, L0), L0)

\* double dP = (Pmag - P0mag) / (P0mag == 0 ? 1.0 : P0mag);
dP_rel(Pmag, P0mag) == QDiv(QSub(Pmag, P0mag), IF P0mag = ZERO THEN ONE ELSE P0mag)

\* the data row of step i, in the order of the columns
CsvRow(i, bs, C, Lmag, Pmag, base) ==
    [step |-> i,
     positions |-> AsTuple([k \in Indices(bs) |-> bs[k].position]),
     E_total |-> C.total_energy, KE |-> C.kinetic_energy, PE |-> C.potential_energy,
     L |-> C.L, Lmag |-> Lmag,
     P |-> C.P, Pmag |-> Pmag,
     dE_rel |-> dE_rel(C.total_energy, base.E0),
     dL_rel |-> dL_rel(Lmag, base.L0),
     dP_rel |-> dP_rel(Pmag, base.P0mag)]

\* the row of step i for the collection bs and its diagnostics C
TickRow(i, bs, C, base) == CsvRow(i, bs, C, Magnitude(C.L), Magnitude(C.P), base)

\* the index detectSEM leaves for the name nm: the last body so named
LastNamed(bs, nm) ==
    IF \E k \in Indices(bs) : bs[k].name = nm
    THEN CHOOSE k \in Indices(bs) :
             /\ bs[k].name = nm
             /\ \A m \in Indices(bs) : bs[m].name = nm => m <= k
    ELSE 0

\* a detection that takes the first three bodies for the Sun, Earth and Moon
detectSEM_byPosition(bs) ==
    [idxSun |-> IF Len(bs) >= 3 THEN 1 ELSE 0, idxEarth |-> IF Len(bs) >= 3 THEN 2 ELSE 0,
     idxMoon |-> IF Len(bs) >= 3 THEN 3 ELSE 0]

detectSEM(bs) ==
    [idxSun |-> LastNamed(bs, "Sun"), idxEarth |-> LastNamed(bs, "Earth"),
     idxMoon |-> LastNamed(bs, "Moon")]

\* idxSun >= 0 && idxEarth >= 0 && idxMoon >= 0
Found(idx) == idx.idxSun > 0 /\ idx.idxEarth > 0 /\ idx.idxMoon > 0

\* the eclipse log row of step i
EclipseRow(i, e) ==
    [step |-> i, shadowCenter |-> e.shadowCenter, umbraRadius |-> e.umbraRadius,
     penumbraRadius |-> e.penumbraRadius, eclipseType |-> e.eclipseType]

TickEclipse(i, bs, idx) ==
    EclipseRow(i, computeSolarEclipse(bs[idx.idxSun].position, bs[idx.idxEarth].position,
                                      bs[idx.idxMoon].position))

---------------------------------------------------------------------------
(* Inputs of the runner *)

RowRepresentable(row) ==
    /\ Representable(row.E_total) /\ Representable(row.KE) /\ Representable(row.PE)
    /\ VecRepresentable(row.L) /\ VecRepresentable(row.P)
    /\ Representable(row.Lmag) /\ Representable(row.Pmag)
    /\ Representable(row.dE_rel) /\ Representable(row.dL_rel) /\ Representable(row.dP_rel)

BaselineRepresentable(base) ==
    Representable(base.E0) /\ Representable(base.L0) /\ Representable(base.P0mag)

RECURSIVE TicksRepresentable(_, _, _, _, _, _)
\* the collection nb that step i produced, its rows, and the steps after it
TickRepresentable(nb, h, n, i, base, idx) ==
    /\ BodiesRepresentable(nb)
    /\ RowRepresentable(TickRow(i, nb, compute(nb), base))
    /\ Found(idx) => EclipseRepresentable(TickEclipse(i, nb, idx))
    /\ TicksRepresentable(nb, h, n, i + 1, base, idx)

TicksRepresentable(bs, h, n, i, base, idx) ==
    IF i >= n THEN TRUE ELSE TickRepresentable(rk4Step(bs, h), h, n, i, base, idx)

\* a run of n steps of size h on bs computes representable values only
RunRepresentable(bs, h, n) ==
    \/ Len(bs) = 0
    \/ /\ BaselineRepresentable(Baseline(compute(bs)))
       /\ TicksRepresentable(bs, h, n, 0, Baseline(compute(bs)), detectSEM(bs))

\* a Sun, an Earth and a Moon less than 1 m apart, the Moon between the two
SemVelocities == { Vec(0, 0, 0), Vec(1, 0, 0), Vec(0, 1, 0) }

SemInputs ==
    { << CelestialBody("Sun", R(3), Vec(0, 0, 0), vs[1], Junk(1)),
         CelestialBody("Earth", R(1), <<Frac(3, 4), ZERO, ZERO>>, vs[2], Junk(2)),
         CelestialBody("Moon", R(1), <<Half, ZERO, ZERO>>, vs[3], Junk(3)) >> :
        vs \in [1..3 -> SemVelocities] }

\* the collections of at most maxLen bodies the integrator is checked on, and
\* the Sun, Earth and Moon
RunInputs(maxLen) == RkInputs(maxLen) \cup SemInputs

RunAdmissible(h, n) == {bs \in RunInputs(MaxRkBodies) : RunRepresentable(bs, h, n)}

\* the values of int steps a run is started with: negative, zero, positive
StepCounts == {-1} \cup 0..MaxSteps

InitRun ==
    /\ \E h \in RkTimesteps, n \in StepCounts :
          /\ dt = h
          /\ steps = n
          /\ bodies \in RunAdmissible(h, n)
    /\ entry = bodies
    /\ pc = "run_call"
    /\ stepNo = 0
    /\ twin = <<>>
    /\ RkIdle /\ ForceIdle /\ EclIdle /\ RunIdle /\ BaryIdle /\ CliIdle
    /\ cons = <<>> /\ ci = 0 /\ cj = 0 /\ terms = <<>> /\ firstC = <<>>

\* if (bodies.empty()) return;
RunEmpty ==
    /\ pc = "run_call"
    /\ Len(bodies) = 0
    /\ pc' = "run_done"
    /\ UNCHANGED <<bodies, entry, forceVars, rkVars, stepVars, diagVars, eclVars, cliVars, runVars, baryVars>>

\* C0 = compute(bodies); E0, L0, P0mag; detectSEM; the eclipse log is opened,
\* which succeeds or fails
RunBaseline ==
    /\ pc = "run_call"
    /\ Len(bodies) > 0
    /\ cons' = compute(bodies)
    /\ baseline' = Baseline(cons')
    /\ semIdx' = detectSEM(bodies)
    /\ \E opened \in BOOLEAN : isSEM' = (Found(semIdx') /\ opened)
    /\ pc' = "run_open"
    /\ UNCHANGED <<bodies, entry, ci, cj, terms, rows, eclipseRows, stage, events,
                   forceVars, rkVars, stepVars, eclVars, cliVars, firstC, baryVars>>

\* the main CSV file cannot be opened: return
RunOpenFails ==
    /\ pc = "run_open"
    /\ pc' = "run_failed"
    /\ UNCHANGED <<bodies, entry, forceVars, rkVars, stepVars, diagVars, eclVars, cliVars, runVars, baryVars>>

\* the main CSV file is open and its header written
RunOpen ==
    /\ pc = "run_open"
    /\ pc' = "run_loop"
    /\ UNCHANGED <<bodies, entry, forceVars, rkVars, stepVars, diagVars, eclVars, cliVars, runVars, baryVars>>

\* an iteration that writes the rows of the state it finds, then steps
RunTick_rowFirst ==
    /\ pc = "run_loop"
    /\ stepNo < steps
    /\ bodies' = rk4Step(bodies, dt)
    /\ cons' = compute(bodies)
    /\ eclipseRows' = IF isSEM THEN Append(eclipseRows, TickEclipse(stepNo, bodies, semIdx))
                      ELSE eclipseRows
    /\ rows' = Append(rows, TickRow(stepNo, bodies, cons', baseline))
    /\ stepNo' = stepNo + 1
    /\ UNCHANGED <<entry, pc, dt, steps, twin, ci, cj, terms, baseline, isSEM, semIdx,
                   stage, events, forceVars, rkVars, eclVars, cliVars, firstC, baryVars>>

\* one iteration of the main loop: rk4Step, compute, the drifts, the eclipse row
\* if the log is enabled, the data row
RunTick ==
    /\ pc = "run_loop"
    /\ stepNo < steps
    /\ bodies' = rk4Step(bodies, dt)
    /\ cons' = compute(bodies')
    /\ eclipseRows' = IF isSEM THEN Append(eclipseRows, TickEclipse(stepNo, bodies', semIdx))
                      ELSE eclipseRows
    /\ rows' = Append(rows, TickRow(stepNo, bodies', cons', baseline))
    /\ stepNo' = stepNo + 1
    /\ UNCHANGED <<entry, pc, dt, steps, twin, ci, cj, terms, baseline, isSEM, semIdx,
                   stage, events, forceVars, rkVars, eclVars, cliVars, firstC, baryVars>>

\* a loop that also stops at a row whose angular momentum drift is not finite
RunEnd_onNaN ==
    /\ pc = "run_loop"
    /\ \/ stepNo >= steps
       \/ rows # <<>> /\ ~IsFinite(rows[Len(rows)].dL_rel)
    /\ pc' = "run_done"
    /\ UNCHANGED <<bodies, entry, forceVars, rkVars, stepVars, diagVars, eclVars, cliVars, runVars, baryVars>>

\* i == steps: the files are closed
RunEnd ==
    /\ pc = "run_loop"
    /\ stepNo >= steps
    /\ pc' = "run_done"
    /\ UNCHANGED <<bodies, entry, forceVars, rkVars, stepVars, diagVars, eclVars, cliVars, runVars, baryVars>>

NextRun == RunEmpty \/ RunBaseline \/ RunOpenFails \/ RunOpen \/ RunTick \/ RunEnd

SpecRun == InitRun /\ [][NextRun]_vars

\* what RunBaseline and RunTick do to the position and to the step counter
RunProgress ==
    \/ pc = "run_call" /\ Len(bodies) > 0 /\ pc' = "run_open" /\ stepNo' = stepNo
    \/ pc = "run_loop" /\ stepNo < steps /\ pc' = pc /\ stepNo' = stepNo + 1

\* the program is one thread that takes its next step as long as it has one:
\* a return, an open or a loop exit that can be taken is taken, and so is a
\* baseline or a tick
SpecRunFair ==
    /\ SpecRun
    /\ WF_vars(RunEmpty \/ RunOpenFails \/ RunOpen \/ RunEnd)
    /\ WF_<<pc, stepNo>>(RunProgress)

---------------------------------------------------------------------------
(* Properties of the runner *)

\* the diagnostics of the collection runSimulation was called with
InitialDiagnostics == compute(entry)

\* the baseline was taken from the initial collection and is still that
BaselineKept ==
    baseline # <<>> =>
        /\ baseline.E0 = InitialDiagnostics.total_energy
        /\ baseline.L0 = Magnitude(InitialDiagnostics.L)
        /\ baseline.P0mag = Magnitude(InitialDiagnostics.P)

\* the latest row reports the diagnostics of the collection as the step left it
LatestRowCurrent ==
    rows # <<>> =>
        /\ rows[Len(rows)].E_total = compute(bodies).total_energy
        /\ rows[Len(rows)].Lmag = Magnitude(compute(bodies).L)
        /\ rows[Len(rows)].Pmag = Magnitude(compute(bodies).P)

\* C9 as stated: on every row dE = (E - E0)/|E0|, dL = (|L| - |L0|)/|L0| and
\* dP = (|P| - |P0|)/|P0|, whatever the baseline, which is that of the initial
\* collection and never changes
C9_DriftsAsStated ==
    /\ BaselineKept
    /\ LatestRowCurrent
    /\ \A k \in DOMAIN rows :
          /\ rows[k].dE_rel = QDiv(QSub(rows[k].E_total, baseline.E0), QAbs(baseline.E0))
          /\ rows[k].dL_rel = QDiv(QSub(rows[k].Lmag, baseline.L0), QAbs(baseline.L0))
          /\ rows[k].dP_rel = QDiv(QSub(rows[k].Pmag, baseline.P0mag), QAbs(baseline.P0mag))

\* C9 amended: on every row dE = (E - E0)/|E0| and dL = (|L| - |L0|)/|L0|;
\* dP = (|P| - |P0|)/|P0| when |P0| is not 0 and dP = |P| - |P0| when it is 0;
\* E0, |L0| and |P0| are those of the initial collection and never change
C9_DriftsGuarded ==
    /\ BaselineKept
    /\ LatestRowCurrent
    /\ \A k \in DOMAIN rows :
          /\ rows[k].dE_rel = QDiv(QSub(rows[k].E_total, baseline.E0), QAbs(baseline.E0))
          /\ rows[k].dL_rel = QDiv(QSub(rows[k].Lmag, baseline.L0), QAbs(baseline.L0))
          /\ baseline.P0mag # ZERO =>
                rows[k].dP_rel =
                    QDiv(QSub(rows[k].Pmag, baseline.P0mag), QAbs(baseline.P0mag))
          /\ baseline.P0mag = ZERO =>
                rows[k].dP_rel = QSub(rows[k].Pmag, baseline.P0mag)

\* two rows were written from a baseline of zero momentum and negative energy,
\* and the energy of the second row differs from the baseline's
C9_Witness ==
    /\ Len(rows) = 2
    /\ baseline.P0mag = ZERO
    /\ QLt(baseline.E0, ZERO)
    /\ rows[2].E_total # baseline.E0
    /\ IsFinite(rows[2].dE_rel)
    /\ rows[2].dP_rel = rows[2].Pmag

---------------------------------------------------------------------------
(* runSimulation with each tick followed statement by statement *)

\* an entry of the tick's history: what was done, in which stage of rk4Step, on
\* which pair, and the collection or positions it read
Event(op, st, i, j, read) == [op |-> op, stage |-> st, i |-> i, j |-> j, read |-> read]

\* the collection the force evaluation of stage st works on: the caller's
\* bodies for k1, the intermediate states for k2, k3, k4
Work(st) == CASE st = 1 -> bodies [] st = 2 -> s2 [] st = 3 -> s3 [] OTHER -> s4

\* the derivatives of the stage before st and the scale of its intermediate state
StageBase(st) == CASE st = 2 -> k1 [] st = 3 -> k2 [] OTHER -> k3

StageScale(st) == IF st = 4 THEN dt ELSE QMul(dt, Half)

\* the loop test passes and rk4Step(bodies, dt) is entered
TickBegin ==
    /\ pc = "run_loop"
    /\ stepNo < steps
    /\ stage' = 1
    /\ events' = <<Event("tick", 0, 0, 0, bodies)>>
    /\ pc' = "t_reset"
    /\ UNCHANGED <<bodies, entry, forceVars, rkVars, stepVars, diagVars, eclVars, cliVars,
                   baseline, rows, isSEM, semIdx, eclipseRows, baryVars>>

\* updateAccelerations of the stage: resetAccelerations
TickReset ==
    /\ pc = "t_reset"
    /\ bodies' = IF stage = 1 THEN resetAccelerations(bodies) ELSE bodies
    /\ s2' = IF stage = 2 THEN resetAccelerations(s2) ELSE s2
    /\ s3' = IF stage = 3 THEN resetAccelerations(s3) ELSE s3
    /\ s4' = IF stage = 4 THEN resetAccelerations(s4) ELSE s4
    /\ fi' = 1
    /\ fj' = 2
    /\ events' = Append(events, Event("reset", stage, 0, 0, <<>>))
    /\ pc' = "t_pairs"
    /\ UNCHANGED <<entry, before, calls, divs, k1, k2, k3, k4, stepVars, diagVars, eclVars, cliVars,
                   baseline, rows, isSEM, semIdx, eclipseRows, stage, partial, baryVars>>

\* updateAccelerations of the stage: one computeGravitationalForce call
TickPair ==
    /\ pc = "t_pairs"
    /\ fi < Len(bodies)
    /\ bodies' = IF stage = 1 THEN computeGravitationalForce(bodies, fi, fj).bodies ELSE bodies
    /\ s2' = IF stage = 2 THEN computeGravitationalForce(s2, fi, fj).bodies ELSE s2
    /\ s3' = IF stage = 3 THEN computeGravitationalForce(s3, fi, fj).bodies ELSE s3
    /\ s4' = IF stage = 4 THEN computeGravitationalForce(s4, fi, fj).bodies ELSE s4
    /\ fi' = NextPair(Len(bodies), fi, fj)[1]
    /\ fj' = NextPair(Len(bodies), fi, fj)[2]
    /\ events' = Append(events, Event("pair", stage, fi, fj, <<>>))
    /\ UNCHANGED <<entry, pc, before, calls, divs, k1, k2, k3, k4, stepVars, diagVars,
                   eclVars, cliVars,
                   baseline, rows, isSEM, semIdx, eclipseRows, stage, partial, baryVars>>

\* the pair loop ends; evaluateDerivatives collects the stage's derivatives
TickDerive ==
    /\ pc = "t_pairs"
    /\ fi >= Len(bodies)
    /\ k1' = IF stage = 1 THEN Derivatives(Work(stage)) ELSE k1
    /\ k2' = IF stage = 2 THEN Derivatives(Work(stage)) ELSE k2
    /\ k3' = IF stage = 3 THEN Derivatives(Work(stage)) ELSE k3
    /\ k4' = IF stage = 4 THEN Derivatives(Work(stage)) ELSE k4
    /\ fi' = 0
    /\ fj' = 0
    /\ pc' = IF stage < 4 THEN "t_build" ELSE "t_combine"
    /\ UNCHANGED <<bodies, entry, before, calls, divs, s2, s3, s4, stepVars, diagVars,
                   eclVars, cliVars,
                   runVars, partial, baryVars>>

\* buildIntermediateState for the next stage
TickBuild ==
    /\ pc = "t_build"
    /\ stage' = stage + 1
    /\ s2' = IF stage' = 2 THEN buildIntermediateState(bodies, StageBase(2), StageScale(2)) ELSE s2
    /\ s3' = IF stage' = 3 THEN buildIntermediateState(bodies, StageBase(3), StageScale(3)) ELSE s3
    /\ s4' = IF stage' = 4 THEN buildIntermediateState(bodies, StageBase(4), StageScale(4)) ELSE s4
    /\ pc' = "t_reset"
    /\ UNCHANGED <<bodies, entry, forceVars, k1, k2, k3, k4, stepVars, diagVars, eclVars, cliVars,
                   baseline, rows, isSEM, semIdx, eclipseRows, events, baryVars>>

\* the combination loop; rk4Step returns and its locals die
TickCombine ==
    /\ pc = "t_combine"
    /\ bodies' = Combine(bodies, k1, k2, k3, k4, dt)
    /\ k1' = <<>> /\ k2' = <<>> /\ k3' = <<>> /\ k4' = <<>>
    /\ s2' = <<>> /\ s3' = <<>> /\ s4' = <<>>
    /\ stage' = 0
    /\ events' = Append(events, Event("combine", 0, 0, 0, <<>>))
    /\ pc' = "t_compute"
    /\ UNCHANGED <<entry, forceVars, stepVars, diagVars, eclVars, cliVars,
                   baseline, rows, isSEM, semIdx, eclipseRows, baryVars>>

\* C = compute(bodies)
TickCompute ==
    /\ pc = "t_compute"
    /\ cons' = compute(bodies)
    /\ events' = Append(events, Event("compute", 0, 0, 0, bodies))
    /\ pc' = "t_eclipse"
    /\ UNCHANGED <<bodies, entry, ci, cj, terms, forceVars, rkVars, stepVars, eclVars, cliVars,
                   baseline, rows, isSEM, semIdx, eclipseRows, stage, firstC, baryVars>>

\* an eclipse step that takes the positions the tick started with
TickEclipse_stale ==
    /\ pc = "t_eclipse"
    /\ isSEM
    /\ eclipseRows' = Append(eclipseRows, TickEclipse(stepNo, events[1].read, semIdx))
    /\ events' = Append(events,
           Event("eclipse", 0, 0, 0, <<events[1].read[semIdx.idxSun].position,
                                       events[1].read[semIdx.idxEarth].position,
                                       events[1].read[semIdx.idxMoon].position>>))
    /\ pc' = "t_row"
    /\ UNCHANGED <<bodies, entry, forceVars, rkVars, stepVars, diagVars, eclVars, cliVars,
                   baseline, rows, isSEM, semIdx, stage, baryVars>>

\* if (isSEM): computeSolarEclipse on the positions of Sun, Earth and Moon, and
\* the eclipse log row
TickEclipse_logged ==
    /\ pc = "t_eclipse"
    /\ isSEM
    /\ eclipseRows' = Append(eclipseRows, TickEclipse(stepNo, bodies, semIdx))
    /\ events' = Append(events,
           Event("eclipse", 0, 0, 0, <<bodies[semIdx.idxSun].position,
                                       bodies[semIdx.idxEarth].position,
                                       bodies[semIdx.idxMoon].position>>))
    /\ pc' = "t_row"
    /\ UNCHANGED <<bodies, entry, forceVars, rkVars, stepVars, diagVars, eclVars, cliVars,
                   baseline, rows, isSEM, semIdx, stage, baryVars>>

\* isSEM is false: no eclipse call
TickNoEclipse ==
    /\ pc = "t_eclipse"
    /\ ~isSEM
    /\ pc' = "t_row"
    /\ UNCHANGED <<bodies, entry, forceVars, rkVars, stepVars, diagVars, eclVars, cliVars, runVars, baryVars>>

\* the CSV row; ++i
TickRowWritten ==
    /\ pc = "t_row"
    /\ rows' = Append(rows, TickRow(stepNo, bodies, cons, baseline))
    /\ stepNo' = stepNo + 1
    /\ pc' = "run_loop"
    /\ UNCHANGED <<bodies, entry, forceVars, rkVars, dt, steps, twin, diagVars, eclVars, cliVars,
                   baseline, isSEM, semIdx, eclipseRows, stage, events, baryVars>>

NextTick ==
    \/ RunEmpty \/ RunBaseline \/ RunOpenFails \/ RunOpen \/ RunEnd
    \/ TickBegin \/ TickReset \/ TickPair \/ TickDerive \/ TickBuild \/ TickCombine
    \/ TickCompute \/ TickEclipse_logged \/ TickNoEclipse \/ TickRowWritten

SpecTick == InitRun /\ [][NextTick]_vars

---------------------------------------------------------------------------
(* The order of a tick *)

\* how many entries of the tick's history are the operation op
Count(op) == Cardinality({k \in DOMAIN events : events[k].op = op})

\* how many are the operation op of stage st on the pair (i, j)
CountAt(op, st, i, j) ==
    Cardinality({k \in DOMAIN events :
        /\ events[k].op = op /\ events[k].stage = st
        /\ events[k].i = i /\ events[k].j = j})

\* the place of an entry in a tick whose force evaluation runs once per stage
StageRank(e) ==
    CASE e.op = "tick" -> 0
      [] e.op = "reset" -> 2 * e.stage - 1
      [] e.op = "pair" -> 2 * e.stage
      [] e.op = "combine" -> 9
      [] e.op = "compute" -> 10
      [] OTHER -> 11

\* the place of an entry in a tick that runs each operation once
FlatRank(e) ==
    CASE e.op = "tick" -> 0
      [] e.op = "reset" -> 1
      [] e.op = "pair" -> 2
      [] e.op = "combine" -> 3
      [] e.op = "compute" -> 4
      [] OTHER -> 5

TickComplete == pc = "t_row"

\* the state rk4Step makes of the collection the tick started with
Stepped == rk4Step(events[1].read, dt)

\* C16 as stated: each tick runs the force reset, the pairwise accumulation, the
\* stage combination, compute and (with the eclipse log enabled) the eclipse
\* geometry once each and in this order, and compute and the eclipse geometry
\* read the state the tick's rk4Step produced.
C16_OncePerTick ==
    /\ \A k \in 1..(Len(events) - 1) : FlatRank(events[k]) <= FlatRank(events[k + 1])
    /\ TickComplete =>
          /\ Count("reset") = 1
          /\ \A i \in 1..Len(bodies), j \in 1..Len(bodies) :
                i < j => CountAt("pair", 1, i, j) = 1
          /\ Count("combine") = 1
          /\ Count("compute") = 1
          /\ isSEM => Count("eclipse") = 1

\* C16 as the code has it: each tick runs the force evaluation four times, once
\* for each stage of rk4Step, every time with the reset before all of the
\* stage's pairs and every pair i < j once; then the stage combination once,
\* then compute once, then, with the eclipse log enabled, the eclipse geometry
\* once; compute and the eclipse geometry start after rk4Step has completed and
\* read the state it produced.
C16_TickOrder ==
    /\ \A k \in 1..(Len(events) - 1) : StageRank(events[k]) <= StageRank(events[k + 1])
    /\ \A k \in DOMAIN events :
          /\ events[k].op = "compute" => events[k].read = Stepped /\ bodies = Stepped
          /\ events[k].op = "eclipse" =>
                events[k].read = <<Stepped[semIdx.idxSun].position,
                                   Stepped[semIdx.idxEarth].position,
                                   Stepped[semIdx.idxMoon].position>>
    /\ TickComplete =>
          /\ \A st \in 1..4 :
                /\ CountAt("reset", st, 0, 0) = 1
                /\ \A i \in 1..Len(bodies), j \in 1..Len(bodies) :
                      CountAt("pair", st, i, j) = IF i < j THEN 1 ELSE 0
          /\ Count("reset") = 4
          /\ Count("combine") = 1
          /\ Count("compute") = 1
          /\ Count("eclipse") = IF isSEM THEN 1 ELSE 0

\* the second tick of a run on the Sun, Earth and Moon with the eclipse log
\* enabled is complete
C16_Witness ==
    /\ TickComplete
    /\ stepNo = 1
    /\ isSEM
    /\ Len(bodies) = 3
    /\ Count("pair") = 12
    /\ Count("eclipse") = 1
    /\ entry # events[1].read

---------------------------------------------------------------------------
(* The end of a run *)

Max0(n) == IF n > 0 THEN n ELSE 0

Returned == pc \in {"run_done", "run_failed"}

\* the ticks made so far are the rows written so far, never more than
\* max(steps, 0); a run that left the loop made exactly max(steps, 0); one that
\* could not open its output made none; steps <= 0 leaves the bodies as given
TicksCounted ==
    /\ stepNo = Len(rows)
    /\ Len(rows) <= Max0(steps)
    /\ (pc = "run_done" /\ Len(entry) > 0) => Len(rows) = Max0(steps)
    /\ pc = "run_failed" => rows = <<>> /\ bodies = entry
    /\ steps <= 0 => rows = <<>> /\ bodies = entry

\* the loop is left only by the test of the step counter
LeavesByCounter == (pc = "run_loop" /\ pc' # "run_loop") => (stepNo >= steps /\ pc' = "run_done")

\* C17 as stated: every run on a non-empty collection has made exactly
\* max(steps, 0) ticks when it returns.
C17_ExactlySteps == (Returned /\ Len(entry) > 0) => Len(rows) = Max0(steps)

\* C17 amended: every run returns; one on a non-empty collection whose output
\* file could be opened returns after exactly max(steps, 0) ticks, and one whose
\* output file could not be opened returns before the first tick; the test of
\* the step counter is the only exit from the loop, whatever the rows hold; with
\* steps <= 0 no rk4Step is executed.
C17_StepCounterOnly ==
    /\ []TicksCounted
    /\ [][LeavesByCounter]_vars
    /\ <>Returned

\* a run of two steps has returned after two rows, the first with a drift that
\* is not a number and an eclipse row of a type other than 0
C17_Witness ==
    /\ pc = "run_done"
    /\ steps = 2
    /\ Len(rows) = 2
    /\ ~IsFinite(rows[1].dL_rel)
    /\ isSEM
    /\ eclipseRows[1].eclipseType # 0

---------------------------------------------------------------------------
(* runSimulation on named bodies *)

\* the names three bodies carry: the Sun, Earth and Moon in every order, and
\* collections that lack one of the three names
Namings ==
    { <<"Sun", "Earth", "Moon">>, <<"Sun", "Moon", "Earth">>, <<"Earth", "Sun", "Moon">>,
      <<"Earth", "Moon", "Sun">>, <<"Moon", "Sun", "Earth">>, <<"Moon", "Earth", "Sun">>,
      <<"Sun", "Earth", "Mars">>, <<"sun", "Earth", "Moon">>, <<"Sun", "Earth", "Earth">> }

NamedVelocities == { Vec(0, 0, 0), Vec(0, 1, 0) }

\* three bodies less than 1 m apart under each of the namings, and no body
NamedInputs ==
    { << CelestialBody(nm[1], R(3), Vec(0, 0, 0), vs[1], Junk(1)),
         CelestialBody(nm[2], R(1), <<Frac(3, 4), ZERO, ZERO>>, vs[2], Junk(2)),
         CelestialBody(nm[3], R(1), <<Half, ZERO, ZERO>>, vs[3], Junk(3)) >> :
        nm \in Namings, vs \in [1..3 -> NamedVelocities] } \cup { <<>> }

NamedAdmissible(h, n) == {bs \in NamedInputs : RunRepresentable(bs, h, n)}

InitNamed ==
    /\ \E h \in RkTimesteps, n \in StepCounts :
          /\ dt = h
          /\ steps = n
          /\ bodies \in NamedAdmissible(h, n)
    /\ entry = bodies
    /\ pc = "run_call"
    /\ stepNo = 0
    /\ twin = <<>>
    /\ RkIdle /\ ForceIdle /\ EclIdle /\ RunIdle /\ BaryIdle /\ CliIdle
    /\ cons = <<>> /\ ci = 0 /\ cj = 0 /\ terms = <<>> /\ firstC = <<>>

SpecNamed == InitNamed /\ [][NextRun]_vars

SemNames == {"Sun", "Earth", "Moon"}

\* the collection holds a body of each of the three names
NamesPresent(bs) == \A nm \in SemNames : \E k \in Indices(bs) : bs[k].name = nm

\* the position of the body of bs that carries the name nm
PositionOf(bs, nm) == bs[CHOOSE k \in Indices(bs) : bs[k].name = nm].position

---------------------------------------------------------------------------
(* The command line: main, validateSystemFile, loadSystemFromJSON *)

\* the "bodies" entries of a system file (mass, position, velocity): bodies of
\* positive, zero and negative mass
JsonSamples ==
    { <<R(1), Vec(0, 0, 0), Vec(0, 0, 0)>>,
      <<R(3), Vec(2, 0, 0), Vec(0, 0, 0)>>,
      <<R(1), Vec(2, 0, 0), Vec(1, 0, 0)>>,
      <<R(0), Vec(2, 0, 0), Vec(0, 0, 0)>>,
      <<R(-1), Vec(2, 0, 0), Vec(0, 1, 0)>>,
      <<R(-1), Vec(0, 0, 0), Vec(0, 0, 0)>> }

\* a system file: one that cannot be opened, one that is not the JSON the loader
\* expects, or a "bodies" array of at most maxLen entries
JsonFiles(maxLen) ==
    { [kind |-> "unreadable", entries |-> <<>>], [kind |-> "malformed", entries |-> <<>>] }
    \cup UNION { { [kind |-> "json", entries |-> AsTuple(c)] : c \in [1..n -> JsonSamples] } :
                 n \in 0..maxLen }

\* loadSystemFromJSON throws: the file cannot be opened, or parsing or a lookup fails
LoadThrows(file) == file.kind # "json"

\* the collection loadSystemFromJSON returns: the entries in order, each with
\* zero acceleration; no field is tested
loadSystemFromJSON(file) ==
    AsTuple([k \in 1..Len(file.entries) |->
        CelestialBody(BodyNames[k], file.entries[k][1], file.entries[k][2],
                      file.entries[k][3], Vec(0, 0, 0))])

RECURSIVE BodyLines(_, _)
\* the lines validateSystemFile prints for the first k bodies: the body's line,
\* and a warning after it when b.mass <= 0.0
BodyLines(bs, k) ==
    IF k = 0 THEN <<>>
    ELSE BodyLines(bs, k - 1) \o <<bs[k].name>>
         \o (IF QLe(bs[k].mass, ZERO) THEN <<"Warning: non-positive mass">> ELSE <<>>)

\* validateSystemFile: what it returns and what it prints
validateSystemFile(file) ==
    IF LoadThrows(file)
    THEN [ok |-> "false", lines |-> <<"Validation failed">>]
    ELSE IF Len(file.entries) = 0
         THEN [ok |-> "false", lines |-> <<"System loaded but contains 0 bodies">>]
         ELSE [ok |-> "true",
               lines |-> <<"System is valid">>
                         \o BodyLines(loadSystemFromJSON(file), Len(file.entries))]

DefaultSteps == 8766

\* the files whose run of n steps of size h computes representable values only
CliAdmissible(h, n) ==
    {f \in JsonFiles(MaxRkBodies) : RunRepresentable(loadSystemFromJSON(f), h, n)}

InitCli ==
    /\ \E h \in RkTimesteps, n \in 1..MaxSteps :
          /\ dt = h
          /\ steps = n
          /\ systemFile \in CliAdmissible(h, n)
    /\ command \in {"validate", "run"}
    /\ verdict = "" /\ report = <<>> /\ exitCode = -1
    /\ ArgsIdle
    /\ bodies = <<>>
    /\ entry = <<>>
    /\ pc = "cli_main"
    /\ stepNo = 0
    /\ twin = <<>>
    /\ RkIdle /\ ForceIdle /\ EclIdle /\ RunIdle /\ BaryIdle
    /\ cons = <<>> /\ ci = 0 /\ cj = 0 /\ terms = <<>> /\ firstC = <<>>

\* orbit-sim validate: main returns 0 when validateSystemFile returns true
CliValidate ==
    /\ pc = "cli_main"
    /\ command = "validate"
    /\ verdict' = validateSystemFile(systemFile).ok
    /\ report' = validateSystemFile(systemFile).lines
    /\ exitCode' = IF verdict' = "true" THEN 0 ELSE 1
    /\ pc' = "cli_exit"
    /\ UNCHANGED <<bodies, entry, forceVars, rkVars, stepVars, diagVars, eclVars, runVars,
                   command, systemFile,
                   argv, argi, opt, shown, baryVars>>

\* orbit-sim run: loadSystemFromJSON throws, main catches and returns 1
CliRunThrows ==
    /\ pc = "cli_main"
    /\ command = "run"
    /\ LoadThrows(systemFile)
    /\ exitCode' = 1
    /\ pc' = "cli_exit"
    /\ UNCHANGED <<bodies, entry, forceVars, rkVars, stepVars, diagVars, eclVars, runVars,
                   command, systemFile, verdict, report,
                   argv, argi, opt, shown, baryVars>>

\* orbit-sim run: the system is loaded and runSimulation is called on it
CliRunCalls ==
    /\ pc = "cli_main"
    /\ command = "run"
    /\ ~LoadThrows(systemFile)
    /\ bodies' = loadSystemFromJSON(systemFile)
    /\ entry' = bodies'
    /\ steps' = IF steps > 0 THEN steps ELSE DefaultSteps
    /\ pc' = "run_call"
    /\ UNCHANGED <<forceVars, rkVars, dt, stepNo, twin, diagVars, eclVars, runVars, cliVars, baryVars>>

\* runSimulation has returned: main returns 0
CliRunReturns ==
    /\ pc \in {"run_done", "run_failed"}
    /\ command = "run"
    /\ exitCode' = 0
    /\ pc' = "cli_exit"
    /\ UNCHANGED <<bodies, entry, forceVars, rkVars, stepVars, diagVars, eclVars, runVars,
                   command, systemFile, verdict, report,
                   argv, argi, opt, shown, baryVars>>

NextCli ==
    \/ CliValidate \/ CliRunThrows \/ CliRunCalls \/ CliRunReturns
    \/ RunEmpty \/ RunBaseline \/ RunOpenFails \/ RunOpen \/ RunTick \/ RunEnd

SpecCli == InitCli /\ [][NextCli]_vars

\* the system file holds a body of non-positive mass
NonPositiveMass == \E k \in 1..Len(systemFile.entries) : QLe(systemFile.entries[k][1], ZERO)

\* runSimulation was called on the loaded system
CoreCalled == pc \in {"run_call", "run_open", "run_loop", "run_done", "run_failed"} \/ stepNo > 0

\* C19: for a system file that holds a body of non-positive mass,
\* validateSystemFile returns false and reports the field, and the run command
\* calls neither runSimulation nor rk4Step on the loaded bodies.
C19_RejectedBeforeCore ==
    NonPositiveMass =>
        /\ verdict # "true"
        /\ ~CoreCalled
        /\ stepNo = 0

\* what the code does: every "bodies" array that loads and is not empty is valid,
\* a non-positive mass is printed as a warning, and the run command hands
\* whatever loads to runSimulation without validating it
ValidatorAccepts ==
    /\ (command = "validate" /\ pc = "cli_exit" /\ systemFile.kind = "json"
        /\ Len(systemFile.entries) > 0) => verdict = "true" /\ exitCode = 0
    /\ (verdict = "true" /\ NonPositiveMass) =>
          \E k \in DOMAIN report : report[k] = "Warning: non-positive mass"
    /\ command = "run" => verdict = ""

---------------------------------------------------------------------------
(* compute called twice on one collection *)

\* a second call that goes on from the C of the first
ComputeAgain_keepsC ==
    /\ pc = "c_done"
    /\ firstC = <<>>
    /\ firstC' = cons
    /\ ci' = 0 /\ cj' = 0
    /\ terms' = <<>>
    /\ pc' = "c_call"
    /\ UNCHANGED <<bodies, entry, cons, forceVars, rkVars, stepVars, eclVars, cliVars, runVars, baryVars>>

\* the caller keeps the returned value and calls compute on the same collection
\* again: the call starts from its own default constructed Conservations C
ComputeAgain ==
    /\ pc = "c_done"
    /\ firstC = <<>>
    /\ firstC' = cons
    /\ cons' = Conservations
    /\ ci' = 0 /\ cj' = 0
    /\ terms' = <<>>
    /\ pc' = "c_call"
    /\ UNCHANGED <<bodies, entry, forceVars, rkVars, stepVars, eclVars, cliVars, runVars, baryVars>>

NextTwice == NextCompute \/ ComputeAgain

SpecTwice == InitCompute /\ [][NextTwice]_vars

\* C20: a compute call leaves every field of every body as it found it, at every
\* statement, and a second call on the same collection returns the value the
\* first returned, which is the value of compute on the collection.
C20_ComputeTwiceSame ==
    /\ bodies = entry
    /\ pc = "c_done" => cons = compute(entry)
    /\ (pc = "c_done" /\ firstC # <<>>) => cons = firstC

\* the second call on three bodies has returned a potential energy that is not 0
C20_Witness ==
    /\ pc = "c_done"
    /\ firstC # <<>>
    /\ Len(bodies) = 3
    /\ cons.potential_energy # ZERO
    /\ cons.kinetic_energy # ZERO
    /\ cons = firstC

---------------------------------------------------------------------------
(* The command line: parseCLI and the help dispatch of main *)

MaxArgs == 3

Commands == {"run", "info", "validate", "list", "fetch"}

HelpWords == {"help", "--help", "-h"}

\* the words the sampled command lines are made of
ArgWords == Commands \cup {"help", "--help", "--system", "--steps", "--verbose", "f.json", "2"}

ArgLines(maxLen) == UNION { { AsTuple(a) : a \in [1..n -> ArgWords] } : n \in 0..maxLen }

\* a default constructed CLIOptions
CLIOptions ==
    [command |-> "", systemFile |-> "", steps |-> -1, dt |-> "-1", output |-> "orbit.csv",
     fetchBody |-> "", fetchCenter |-> "", fetchStart |-> "", fetchStop |-> "",
     fetchStep |-> "", verbose |-> FALSE, usePost |-> FALSE]

\* the options that take the next argument as their text
TextOptions ==
    [o \in {"--system", "--output", "--body", "--center", "--start", "--stop", "--step"} |->
        CASE o = "--system" -> "systemFile"
          [] o = "--output" -> "output"
          [] o = "--body" -> "fetchBody"
          [] o = "--center" -> "fetchCenter"
          [] o = "--start" -> "fetchStart"
          [] o = "--stop" -> "fetchStop"
          [] OTHER -> "fetchStep"]

NumberOptions == {"--steps", "--dt"}

Flags == {"--verbose", "--post"}

\* the words std::stoi and std::stod convert; on every other sampled word they throw
Numerals == {"2"}

stoi(word) == IF word = "2" THEN 2 ELSE -1

\* printCommandHelp(cmd): the text it prints
printCommandHelp(cmd) == IF cmd \in Commands THEN cmd ELSE "No help available"

InitArgs ==
    /\ argv \in ArgLines(MaxArgs)
    /\ argi = 0
    /\ opt = CLIOptions
    /\ shown = ""
    /\ command = "" /\ systemFile = <<>> /\ verdict = "" /\ report = <<>> /\ exitCode = -1
    /\ bodies = <<>>
    /\ entry = <<>>
    /\ pc = "p_call"
    /\ RkIdle /\ ForceIdle /\ DiagIdle /\ EclIdle /\ RunIdle /\ BaryIdle
    /\ dt = ZERO /\ steps = 0 /\ stepNo = 0 /\ twin = <<>>

ArgsFrame == <<bodies, entry, forceVars, rkVars, stepVars, diagVars, eclVars, runVars, baryVars,
               command, systemFile, verdict, argv>>

\* argc == 1: global help
ParseNoArguments ==
    /\ pc = "p_call"
    /\ Len(argv) = 0
    /\ opt' = [opt EXCEPT !.command = "help"]
    /\ pc' = "p_main"
    /\ UNCHANGED <<ArgsFrame, argi, report, exitCode, shown>>

\* argv[1] is help, --help or -h: argv[2], if any, is kept as the subcommand
ParseHelp ==
    /\ pc = "p_call"
    /\ Len(argv) > 0
    /\ argv[1] \in HelpWords
    /\ opt' = [opt EXCEPT !.command = "help",
                          !.systemFile = IF Len(argv) >= 2 THEN argv[2] ELSE @]
    /\ pc' = "p_main"
    /\ UNCHANGED <<ArgsFrame, argi, report, exitCode, shown>>

\* argv[1] is the command; the option loop starts at argv[2]
ParseCommand ==
    /\ pc = "p_call"
    /\ Len(argv) > 0
    /\ argv[1] \notin HelpWords
    /\ opt' = [opt EXCEPT !.command = argv[1]]
    /\ argi' = 2
    /\ pc' = "p_options"
    /\ UNCHANGED <<ArgsFrame, report, exitCode, shown>>

\* an option with a text value, followed by its value
ParseText ==
    /\ pc = "p_options"
    /\ argi + 1 <= Len(argv)
    /\ argv[argi] \in DOMAIN TextOptions
    /\ opt' = [opt EXCEPT ![TextOptions[argv[argi]]] = argv[argi + 1]]
    /\ argi' = argi + 2
    /\ UNCHANGED <<ArgsFrame, pc, report, exitCode, shown>>

\* --steps or --dt followed by a word std::stoi or std::stod converts
ParseNumber ==
    /\ pc = "p_options"
    /\ argi + 1 <= Len(argv)
    /\ argv[argi] \in NumberOptions
    /\ argv[argi + 1] \in Numerals
    /\ opt' = IF argv[argi] = "--steps" THEN [opt EXCEPT !.steps = stoi(argv[argi + 1])]
              ELSE [opt EXCEPT !.dt = argv[argi + 1]]
    /\ argi' = argi + 2
    /\ UNCHANGED <<ArgsFrame, pc, report, exitCode, shown>>

\* --steps or --dt followed by a word the conversion throws on: nothing
\* catches, the program is terminated
ParseNumberThrows ==
    /\ pc = "p_options"
    /\ argi + 1 <= Len(argv)
    /\ argv[argi] \in NumberOptions
    /\ argv[argi + 1] \notin Numerals
    /\ report' = Append(report, "terminate: invalid_argument")
    /\ exitCode' = 134
    /\ pc' = "cli_exit"
    /\ UNCHANGED <<ArgsFrame, argi, opt, shown>>

\* --verbose, --post
ParseFlag ==
    /\ pc = "p_options"
    /\ argi <= Len(argv)
    /\ argv[argi] \in Flags
    /\ opt' = IF argv[argi] = "--verbose" THEN [opt EXCEPT !.verbose = TRUE]
              ELSE [opt EXCEPT !.usePost = TRUE]
    /\ argi' = argi + 1
    /\ UNCHANGED <<ArgsFrame, pc, report, exitCode, shown>>

\* any other word, and an option that lacks its value: exit(1)
ParseUnknown ==
    /\ pc = "p_options"
    /\ argi <= Len(argv)
    /\ ~(argi + 1 <= Len(argv) /\ argv[argi] \in DOMAIN TextOptions \cup NumberOptions)
    /\ argv[argi] \notin Flags
    /\ report' = Append(report, "Unknown option: " \o argv[argi])
    /\ exitCode' = 1
    /\ pc' = "cli_exit"
    /\ UNCHANGED <<ArgsFrame, argi, opt, shown>>

\* the loop ends: return opt
ParseReturn ==
    /\ pc = "p_options"
    /\ argi > Len(argv)
    /\ pc' = "p_main"
    /\ UNCHANGED <<ArgsFrame, argi, opt, report, exitCode, shown>>

\* main: opt.command == "help"
MainHelp ==
    /\ pc = "p_main"
    /\ opt.command = "help"
    /\ shown' = IF opt.systemFile # "" THEN printCommandHelp(opt.systemFile) ELSE "global"
    /\ exitCode' = 0
    /\ pc' = "cli_exit"
    /\ UNCHANGED <<ArgsFrame, argi, opt, report>>

\* main: one of the other commands is entered
MainCommand ==
    /\ pc = "p_main"
    /\ opt.command \in Commands
    /\ pc' = "p_command"
    /\ UNCHANGED <<ArgsFrame, argi, opt, report, exitCode, shown>>

\* main: unknown command
MainUnknown ==
    /\ pc = "p_main"
    /\ opt.command \notin Commands \cup {"help"}
    /\ report' = Append(report, "Unknown command: " \o opt.command)
    /\ exitCode' = 1
    /\ pc' = "cli_exit"
    /\ UNCHANGED <<ArgsFrame, argi, opt, shown>>

NextArgs ==
    \/ ParseNoArguments \/ ParseHelp \/ ParseCommand
    \/ ParseText \/ ParseNumber \/ ParseNumberThrows \/ ParseFlag \/ ParseUnknown \/ ParseReturn
    \/ MainHelp \/ MainCommand \/ MainUnknown

SpecArgs == InitArgs /\ [][NextArgs]_vars

\* the command line is <command> --help
AsksCommandHelp == Len(argv) = 2 /\ argv[1] \in Commands /\ argv[2] = "--help"

\* C21: `orbit-sim <command> --help` prints the help of <command> and exits
\* with code 0, as `orbit-sim help <command>` does, and is not reported as an
\* unknown option.
C21_CommandHelp ==
    (AsksCommandHelp /\ pc = "cli_exit") =>
        /\ shown = argv[1]
        /\ exitCode = 0
        /\ report = <<>>

\* what the code does: help <command> prints the command's help and exits 0;
\* <command> --help prints "Unknown option: --help" and exits 1
HelpOnlyAsFirstWord ==
    /\ (Len(argv) >= 2 /\ argv[1] \in HelpWords /\ argv[2] \in Commands /\ pc = "cli_exit")
          => shown = argv[2] /\ exitCode = 0
    /\ (AsksCommandHelp /\ pc = "cli_exit")
          => shown = "" /\ exitCode = 1 /\ report = <<"Unknown option: --help">>


---------------------------------------------------------------------------
(* The force pass with its pairs taken in any order and shared among workers *)

Workers == 1..2

\* bodies whose pairs are coincident, closer than 1 m, or a rational distance apart
OrderSamples ==
    { <<R(1), Vec(0, 0, 0)>>, <<R(3), <<Half, ZERO, ZERO>> >>,
      <<R(1), Vec(3, 0, 0)>>, <<R(3), Vec(0, 4, 0)>> }

OrderInputs(maxLen) ==
    UNION { { AsTuple([k \in 1..n |-> CelestialBody(BodyNames[k], c[k][1], c[k][2],
                                                    ZeroVec, Junk(k))]) :
                c \in [1..n -> OrderSamples] } : n \in 0..maxLen }

\* a reduction that keeps the sums of the last worker only
ReducePartials_lastWorker(bs, copies) ==
    AsTuple([k \in Indices(bs) |->
        [bs[k] EXCEPT !.acceleration = vec3_plus(@, copies[2][k].acceleration)]])

\* the per-body sums of the workers added to the accelerations the reset left
ReducePartials(bs, copies) ==
    AsTuple([k \in Indices(bs) |->
        [bs[k] EXCEPT !.acceleration =
            vec3_plus(vec3_plus(@, copies[1][k].acceleration), copies[2][k].acceleration)]])

InitOrder ==
    /\ bodies \in OrderInputs(MaxBodies)
    /\ ForceRepresentable(bodies)
    /\ entry = bodies
    /\ pc = "o_reset"
    /\ fi = 0
    /\ fj = 0
    /\ before = bodies
    /\ calls = <<>>
    /\ divs = <<>>
    /\ partial = <<>>
    /\ RkIdle
    /\ dt = ZERO
    /\ steps = 0
    /\ stepNo = 0
    /\ twin = <<>>
    /\ DiagIdle /\ EclIdle /\ RunIdle /\ BaryIdle /\ CliIdle

\* resetAccelerations(bodies); every worker starts from the reset collection
OrderReset ==
    /\ pc = "o_reset"
    /\ bodies' = resetAccelerations(bodies)
    /\ partial' = [done |-> {}, copies |-> [w \in Workers |-> resetAccelerations(bodies)]]
    /\ pc' = "o_pairs"
    /\ UNCHANGED <<entry, fi, fj, before, calls, divs, rkVars, stepVars, laterVars>>

\* some worker runs computeGravitationalForce on some pair not processed yet
OrderPair ==
    /\ pc = "o_pairs"
    /\ \E p \in Pairs(bodies) \ partial.done : \E w \in Workers :
          /\ partial' = [done |-> partial.done \cup {p},
                         copies |-> [partial.copies EXCEPT
                             ![w] = computeGravitationalForce(@, p[1], p[2]).bodies]]
          /\ fi' = p[1]
          /\ fj' = p[2]
    /\ UNCHANGED <<bodies, entry, pc, before, calls, divs, rkVars, stepVars, laterVars>>

\* every pair is done: the workers' sums are added
OrderReduce ==
    /\ pc = "o_pairs"
    /\ partial.done = Pairs(bodies)
    /\ bodies' = ReducePartials(bodies, partial.copies)
    /\ pc' = "o_done"
    /\ UNCHANGED <<entry, forceVars, rkVars, stepVars, laterVars>>

NextOrder == OrderReset \/ OrderPair \/ OrderReduce

SpecAnyOrder == InitOrder /\ [][NextOrder]_vars

\* C23: whatever the order in which the pairs (i, j) are processed after the reset
\* and however they are shared among workers whose per-body sums are added
\* afterwards, every body ends with the acceleration the sequential i < j loop
\* of updateAccelerations gives it
C23_OrderIndependent ==
    pc = "o_done" => bodies = updateAccelerations(entry)

\* worker w accumulated something
WorkerContributed(w) ==
    \E k \in Indices(bodies) : partial.copies[w][k].acceleration # ZeroVec

\* three bodies of different masses, one pair closer than 1 m and skipped, the
\* pair (1, 2) processed last (the sequential loop takes it first), and both
\* workers holding a part of the sums
C23_Witness ==
    /\ pc = "o_done"
    /\ Len(bodies) = 3
    /\ fi = 1 /\ fj = 2
    /\ \A w \in Workers : WorkerContributed(w)
    /\ \E p \in Pairs(bodies) :
          /\ bodies[p[1]].position # bodies[p[2]].position
          /\ computeGravitationalForce(entry, p[1], p[2]).divisions = 0
    /\ \E p \in Pairs(bodies) : bodies[p[1]].mass # bodies[p[2]].mass


---------------------------------------------------------------------------
(* The pairs of one collection as the force pass and the diagnostics take them *)

InitPairs ==
    /\ bodies \in ForceInputs(MaxBodies)
    /\ ForceRepresentable(bodies)
    /\ ConservationsRepresentable(compute(bodies))
    /\ entry = bodies
    /\ pc = "f_reset"
    /\ fi = 0
    /\ fj = 0
    /\ before = bodies
    /\ calls = <<>>
    /\ divs = <<>>
    /\ partial = <<>>
    /\ RkIdle
    /\ dt = ZERO
    /\ steps = 0
    /\ stepNo = 0
    /\ twin = <<>>
    /\ DiagIdle /\ EclIdle /\ RunIdle /\ BaryIdle /\ CliIdle

\* the force pass has returned: compute(bodies) is called, Conservations C; is built
PairsCompute ==
    /\ pc = "f_done"
    /\ cons' = Conservations
    /\ pc' = "c_call"
    /\ UNCHANGED <<bodies, entry, ci, cj, terms, firstC, forceVars, rkVars, stepVars,
                   eclVars, cliVars, runVars, baryVars>>

NextPairs == NextForce \/ PairsCompute \/ NextCompute

SpecPairs == InitPairs /\ [][NextPairs]_vars

\* the k-th pair of the two loops, and what each routine did with it
PairOf(k) == calls[k]
Accelerated(k) == divs[k] # 0
HasTerm(k) == terms[k].added
PairsDone == pc = "c_done" /\ Len(terms) = Len(calls)

\* the statement as given: a pair has a potential term exactly when it has an acceleration
C24_SamePairsDegenerate ==
    PairsDone => \A k \in 1..Len(calls) : HasTerm(k) <=> Accelerated(k)

\* C24: every pair for which computeGravitationalForce accumulates an acceleration
\* contributes a term to potential_energy in compute; the pairs that contribute a
\* term without an acceleration are exactly those whose separation is greater
\* than 0 and below 1 m
C24_TermWheneverAccelerated ==
    PairsDone =>
        \A k \in 1..Len(calls) :
            LET r2 == PairR2(entry, PairOf(k)[1], PairOf(k)[2])
            IN  /\ Accelerated(k) => HasTerm(k)
                /\ (HasTerm(k) /\ ~Accelerated(k))
                       <=> (QLt(ZERO, r2) /\ QLt(r2, R(ProximityThreshold)))

\* both loops done on three bodies: one pair with a term and an acceleration,
\* one pair half a metre apart with a term and no acceleration
C24_Witness ==
    /\ PairsDone
    /\ Len(bodies) = 3
    /\ \E k \in 1..Len(calls) : HasTerm(k) /\ Accelerated(k)
    /\ \E k \in 1..Len(calls) :
          /\ HasTerm(k) /\ ~Accelerated(k)
          /\ PairR2(entry, PairOf(k)[1], PairOf(k)[2]) = Frac(1, 4)


---------------------------------------------------------------------------
(* Linear momentum across the ticks of a run *)

\* C25: rk4Step leaves the total linear momentum, the sum of m_i v_i, as it
\* found it, whatever the bodies and dt and whether or not the proximity guard
\* skipped a pair in some stage; so after any number of ticks the P that compute
\* returns is the P of the baseline
C25_MomentumConserved ==
    /\ LinearMomentum(bodies) = LinearMomentum(entry)
    /\ cons # <<>> => cons.P = InitialDiagnostics.P

\* a tick is done whose first stage skipped the pair (the bodies were closer than
\* 1 m) and whose later stages did not: the velocities changed, and the momentum
\* kept is not zero
C25_Witness ==
    /\ pc = "run_loop"
    /\ stepNo >= 1
    /\ Len(bodies) = 2
    /\ Skipped(entry, 1, 2)
    /\ bodies[1].velocity # entry[1].velocity
    /\ LinearMomentum(entry) # ZeroVec
    /\ cons.P = LinearMomentum(entry)


---------------------------------------------------------------------------
(* The type codes computeSolarEclipse can return *)

\* C26: for every input with d_em > 0 and d_sm > 0 the penumbra radius is
\* positive and the type returned is not 0; type 0 comes from the degenerate
\* return only
C26_TypeZeroOnlyDegenerate ==
    pc = "e_done" =>
        /\ NonDegenerate =>
              /\ QGt(result.penumbraRadius, ZERO)
              /\ result.eclipseType # 0
        /\ result.eclipseType = 0 =>
              /\ ~NonDegenerate
              /\ eclDivs = 0

\* a call on bodies apart has returned a penumbra narrower than the Earth, which
\* only the last test of the classification accepts
C26_Witness ==
    /\ pc = "e_done"
    /\ NonDegenerate
    /\ QLt(result.penumbraRadius, R(R_EARTH))
    /\ result.eclipseType = 3
    /\ eclDivs = 5

\* C27: computeSolarEclipse never returns type 1: the umbra radius is at most
\* R_MOON, which is below R_EARTH, so the first test of the classification never
\* succeeds and every result for bodies apart is annular (2) or partial (3)
C27_NeverTotal ==
    pc = "e_done" =>
        /\ result.eclipseType # 1
        /\ QLe(result.umbraRadius, R(R_MOON))
        /\ R_MOON < R_EARTH
        /\ NonDegenerate => result.eclipseType \in {2, 3}

\* a call has returned an umbra radius above 0, the Earth inside the umbra cone,
\* and the type is partial all the same
C27_Witness ==
    /\ pc = "e_done"
    /\ NonDegenerate
    /\ QGt(result.umbraRadius, ZERO)
    /\ result.eclipseType = 3


---------------------------------------------------------------------------
(* A caller that calls rk4Step, updateAccelerations and compute in any order *)

\* the collections on which up to n steps of size h, and a force pass or the
\* diagnostics after any of them, compute representable values only
CallsAdmissible(h, n) ==
    { bs \in RkInputs(MaxRkBodies) :
        \A k \in 0..n : /\ BodiesRepresentable(rk4Steps(bs, h, k))
                        /\ ForceRepresentable(rk4Steps(bs, h, k))
                        /\ ConservationsRepresentable(compute(rk4Steps(bs, h, k))) }

InitCalls ==
    /\ \E h \in RkTimesteps :
          /\ dt = h
          /\ bodies \in CallsAdmissible(h, MaxSteps)
    /\ steps = MaxSteps
    /\ entry = bodies
    /\ pc = "calls"
    /\ stepNo = 0
    /\ twin = <<>>
    /\ RkIdle /\ ForceIdle /\ DiagIdle /\ EclIdle /\ RunIdle /\ BaryIdle /\ CliIdle

\* rk4Step(bodies, dt)
CallRk4Step ==
    /\ stepNo < steps
    /\ bodies' = rk4Step(bodies, dt)
    /\ stepNo' = stepNo + 1
    /\ UNCHANGED <<entry, pc, dt, steps, twin, rkVars, forceVars, laterVars>>

\* updateAccelerations(bodies)
CallUpdateAccelerations ==
    /\ bodies' = updateAccelerations(bodies)
    /\ UNCHANGED <<entry, pc, stepVars, rkVars, forceVars, laterVars>>

\* C = compute(bodies), bodies passed by const reference
CallCompute ==
    /\ cons' = compute(bodies)
    /\ UNCHANGED <<bodies, entry, pc, ci, cj, terms, firstC, stepVars, rkVars, forceVars,
                   eclVars, runVars, cliVars, baryVars>>

NextCalls == CallRk4Step \/ CallUpdateAccelerations \/ CallCompute

SpecCalls == InitCalls /\ [][NextCalls]_vars

\* C28: whatever rk4Step, updateAccelerations and compute calls were made, the
\* collection has the length and the order it had and every body its name and
\* its mass; rk4Step changes position, velocity and acceleration only, and an
\* empty collection stays empty
C28_FrameKept ==
    /\ Len(bodies) = Len(entry)
    /\ \A k \in Indices(bodies) :
          /\ bodies[k].name = entry[k].name
          /\ bodies[k].mass = entry[k].mass
          /\ DOMAIN bodies[k] = DOMAIN entry[k]

\* two bodies after two steps, a force pass on the state they left and the
\* diagnostics of it: positions, velocities and accelerations all differ from
\* those at the start
C28_Witness ==
    /\ stepNo = 2
    /\ Len(bodies) = 2
    /\ bodies = updateAccelerations(bodies)
    /\ bodies # rk4Steps(entry, dt, stepNo)
    /\ cons = compute(bodies)
    /\ \A k \in Indices(bodies) :
          /\ bodies[k].position # entry[k].position
          /\ bodies[k].velocity # entry[k].velocity
          /\ bodies[k].acceleration # entry[k].acceleration


---------------------------------------------------------------------------
(* The data rows of a run *)

\* the row the loop iteration of index i writes: the state after i + 1 steps
RowAfter(i) ==
    TickRow(i, rk4Steps(entry, dt, i + 1), compute(rk4Steps(entry, dt, i + 1)),
            Baseline(compute(entry)))

\* C29: a run with steps = n > 0 whose output file opens writes n data rows, with
\* the step indices 0 to n - 1 in increasing order; the row of index i holds the
\* positions and diagnostics of the state after i + 1 RK4 steps, so no row holds
\* the state at t = 0 as such
C29_RowsAfterEachStep ==
    /\ \A k \in 1..Len(rows) : rows[k].step = k - 1 /\ rows[k] = RowAfter(k - 1)
    /\ Len(rows) = stepNo
    /\ (pc = "run_done" /\ steps > 0 /\ Len(bodies) > 0) => Len(rows) = steps

\* a run of two steps has returned: two rows, the first already away from the
\* initial positions, the second away from the first
C29_Witness ==
    /\ pc = "run_done"
    /\ steps = 2
    /\ Len(rows) = 2
    /\ rows[1].step = 0 /\ rows[2].step = 1
    /\ rows[1].positions # AsTuple([k \in Indices(entry) |-> entry[k].position])
    /\ rows[2].positions # rows[1].positions
    /\ rows[2].KE # rows[1].KE


---------------------------------------------------------------------------
(* normalizeToBarycenter, one loop iteration per step, called twice *)

\* sample bodies (mass, position, velocity): masses above, at and below zero
BarySamples ==
    { <<R(1), Vec(0, 0, 0), Vec(1, 0, 0)>>,
      <<R(3), Vec(4, 0, 0), Vec(0, -1, 2)>>,
      <<R(-1), Vec(1, 2, 2), Vec(0, 2, 0)>>,
      <<R(0), Vec(3, 0, 0), Vec(1, 0, 0)>>,
      <<R(1), Vec(4, 0, 0), Vec(0, 0, 0)>> }

BaryInputs(maxLen) ==
    UNION { { AsTuple([k \in 1..n |->
                  CelestialBody(BodyNames[k], c[k][1], c[k][2], c[k][3], Junk(k))]) :
                c \in [1..n -> BarySamples] } :
            n \in 0..maxLen }

\* double totalMass = 0.0; vec3 R_cm{0,0,0}; vec3 V_cm{0,0,0};
BaryLocals(call, first) ==
    [totalMass |-> ZERO, R_cm |-> ZeroVec, V_cm |-> ZeroVec, k |-> 1,
     call |-> call, first |-> first]

\* a shift that moves the position and leaves the velocity
Shifted_positionOnly(b, R_cm, V_cm) ==
    [b EXCEPT !.position = vec3_minus(@, R_cm)]

\* b.position = b.position - R_cm; b.velocity = b.velocity - V_cm;
Shifted(b, R_cm, V_cm) ==
    [b EXCEPT !.position = vec3_minus(@, R_cm), !.velocity = vec3_minus(@, V_cm)]

\* the sum of the masses, of m * position and of m * velocity
TotalMass(bs) == SumSeq(AsTuple([i \in Indices(bs) |-> bs[i].mass]))

MassMoment(bs) ==
    SumVec(AsTuple([i \in Indices(bs) |-> vec3_scale(bs[i].mass, bs[i].position)]))

\* normalizeToBarycenter(bodies) as one call
normalizeToBarycenter(bs) ==
    IF TotalMass(bs) = ZERO THEN bs
    ELSE AsTuple([i \in Indices(bs) |->
             Shifted(bs[i], vec3_div(MassMoment(bs), TotalMass(bs)),
                     vec3_div(LinearMomentum(bs), TotalMass(bs)))])

InitBary ==
    /\ bodies \in BaryInputs(MaxBodies)
    /\ BodiesRepresentable(normalizeToBarycenter(bodies))
    /\ entry = bodies
    /\ pc = "b_mass"
    /\ bary = BaryLocals(1, <<>>)
    /\ RkIdle /\ ForceIdle /\ DiagIdle /\ EclIdle /\ RunIdle /\ CliIdle
    /\ dt = ZERO /\ steps = 0 /\ stepNo = 0 /\ twin = <<>>

BaryFrame == <<entry, forceVars, rkVars, stepVars, diagVars, eclVars, runVars, cliVars>>

\* for (const auto& b : bodies) totalMass += b.mass;
BaryMass ==
    /\ pc = "b_mass"
    /\ bary.k <= Len(bodies)
    /\ bary' = [bary EXCEPT !.totalMass = QAdd(@, bodies[bary.k].mass), !.k = @ + 1]
    /\ UNCHANGED <<bodies, pc, BaryFrame>>

\* if (totalMass == 0.0) return;
BaryZeroMass ==
    /\ pc = "b_mass"
    /\ bary.k > Len(bodies)
    /\ bary.totalMass = ZERO
    /\ pc' = "b_done"
    /\ UNCHANGED <<bodies, bary, BaryFrame>>

\* the total mass is not zero: the second loop starts
BaryBegin ==
    /\ pc = "b_mass"
    /\ bary.k > Len(bodies)
    /\ bary.totalMass # ZERO
    /\ pc' = "b_com"
    /\ bary' = [bary EXCEPT !.k = 1]
    /\ UNCHANGED <<bodies, BaryFrame>>

\* R_cm += b.position * b.mass; V_cm += b.velocity * b.mass;
BaryCom ==
    /\ pc = "b_com"
    /\ bary.k <= Len(bodies)
    /\ bary' = [bary EXCEPT
                  !.R_cm = vec3_plus(@, vec3_scale(bodies[bary.k].mass, bodies[bary.k].position)),
                  !.V_cm = vec3_plus(@, vec3_scale(bodies[bary.k].mass, bodies[bary.k].velocity)),
                  !.k = @ + 1]
    /\ UNCHANGED <<bodies, pc, BaryFrame>>

\* R_cm /= totalMass; V_cm /= totalMass;
BaryDivide ==
    /\ pc = "b_com"
    /\ bary.k > Len(bodies)
    /\ bary' = [bary EXCEPT !.R_cm = vec3_div(@, bary.totalMass),
                            !.V_cm = vec3_div(@, bary.totalMass),
                            !.k = 1]
    /\ pc' = "b_shift"
    /\ UNCHANGED <<bodies, BaryFrame>>

\* one iteration of the third loop
BaryShift ==
    /\ pc = "b_shift"
    /\ bary.k <= Len(bodies)
    /\ bodies' = [bodies EXCEPT ![bary.k] = Shifted(@, bary.R_cm, bary.V_cm)]
    /\ bary' = [bary EXCEPT !.k = @ + 1]
    /\ UNCHANGED <<pc, BaryFrame>>

\* the third loop ends: return
BaryReturn ==
    /\ pc = "b_shift"
    /\ bary.k > Len(bodies)
    /\ pc' = "b_done"
    /\ UNCHANGED <<bodies, bary, BaryFrame>>

\* the caller calls normalizeToBarycenter(bodies) a second time
BaryAgain ==
    /\ pc = "b_done"
    /\ bary.call = 1
    /\ bary' = BaryLocals(2, bodies)
    /\ pc' = "b_mass"
    /\ UNCHANGED <<bodies, BaryFrame>>

NextBary ==
    \/ BaryMass \/ BaryZeroMass \/ BaryBegin \/ BaryCom \/ BaryDivide
    \/ BaryShift \/ BaryReturn \/ BaryAgain

SpecBary == InitBary /\ [][NextBary]_vars

\* the pairwise differences of positions and of velocities, and the masses
Differences(bs) ==
    [p \in Indices(bs) \X Indices(bs) |->
        <<vec3_minus(bs[p[1]].position, bs[p[2]].position),
          vec3_minus(bs[p[1]].velocity, bs[p[2]].velocity)>>]

Masses(bs) == AsTuple([i \in Indices(bs) |-> bs[i].mass])

\* C30: when normalizeToBarycenter returns on bodies of non-zero total mass, the
\* sums of m * position and of m * velocity are zero, every pairwise difference
\* of positions and of velocities and every mass is what it was, and a second
\* call leaves the collection as the first left it; when the total mass is 0,
\* the empty collection included, the call changes nothing
C30_BarycentreNormalised ==
    pc = "b_done" =>
        /\ TotalMass(entry) # ZERO =>
              /\ MassMoment(bodies) = ZeroVec
              /\ LinearMomentum(bodies) = ZeroVec
              /\ Differences(bodies) = Differences(entry)
              /\ Masses(bodies) = Masses(entry)
        /\ TotalMass(entry) = ZERO => bodies = entry
        /\ bary.call = 2 => bodies = bary.first
        /\ bodies = normalizeToBarycenter(entry)

\* the second call has returned on three bodies of total mass 3 with a body of
\* negative mass among them; the first call had moved every body and changed
\* every velocity
C30_Witness ==
    /\ pc = "b_done"
    /\ bary.call = 2
    /\ Len(bodies) = 3
    /\ TotalMass(entry) = R(3)
    /\ \E k \in Indices(bodies) : QLt(bodies[k].mass, ZERO)
    /\ \A k \in Indices(bodies) :
          /\ bodies[k].position # entry[k].position
          /\ bodies[k].velocity # entry[k].velocity

====
